---- MODULE Spec2Model ----
(***************************************************************************)
(* Agent-mode synthetic benchmark (scripts/benchmark_agent_mode_synthetic) *)
(* of lxRAG-MCP: the phase executor, the per-phase scoring functions, the  *)
(* per-method aggregation and the SQLite ranking views; and the case loop  *)
(* of the tool benchmark (scripts/benchmark_graph_tools).                  *)
(*                                                                         *)
(* Texts are sequences of one-character strings, so that length, slicing,  *)
(* substring tests and word splitting are computed as the Python code      *)
(* computes them.  Real numbers are exact fixed-point integers: step       *)
(* scores in thousandths, aggregate scores in millionths, weighted scores  *)
(* in ten-thousandths (the 4 decimals the view rounds to).                 *)
(***************************************************************************)
EXTENDS Integers, Sequences, FiniteSets, TLC

VARIABLES
    repo,            \* the benchmarked repository as summarize_project_from_codebase reads it
    clock,           \* datetime.now(): number of runs created so far
    runs,            \* table agent_benchmark_runs of the open connection
    steps,           \* table agent_benchmark_steps of the open connection
    results,         \* table agent_benchmark_results of the open connection
    committed,       \* the three tables as of the last conn.commit()
    fs,              \* files and directories below ARTIFACTS_ROOT
    pc,              \* position of main / execute_agent_plan
    cur,             \* run_id, case_id, method and phase of the running execute_agent_plan
    pre_summary,     \* local of execute_agent_plan
    post_summary,    \* local of execute_agent_plan
    output_text,     \* local of execute_agent_plan: the output of the last phase run
    previous_phase,  \* local of execute_agent_plan
    previous_hash,   \* local of execute_agent_plan
    state,           \* local of execute_agent_plan: noise_leaked, drift_detected, revert_clean
    invocation,      \* the last invocation of main: its mode, its case id, what it raised
    tools,           \* benchmark_graph_tools.main: position, case, results of the case, rows
    call             \* a function of the program called on its own: arguments and result

vars == <<repo, clock, runs, steps, results, committed, fs, pc, cur,
          pre_summary, post_summary, output_text, previous_phase, previous_hash, state,
          invocation, tools, call>>

-----------------------------------------------------------------------------
(* Bounds of the model.                                                    *)

\* number of invocations of main per behaviour
MaxRuns == 2

\* number of rows of agent_benchmark_results in a database the ranking views are applied to
MaxRankRows == 2

\* length of the enumerated summary texts the retention score is applied to
MaxTextLen == 2

\* length of the enumerated texts compress_text is applied to
MaxPathLen == 4

-----------------------------------------------------------------------------
(* Program constants.                                                      *)

MAX_CONTEXT_CHARS == 420
MAX_OUTPUT_CHARS == 680

-----------------------------------------------------------------------------
(* String literals of the program, as texts.                               *)

\* 'UNRELATED_CONTEXT_PAYLOAD'
NOISE_TOKEN ==
    <<"U", "N", "R", "E", "L", "A", "T", "E", "D", "_", "C", "O", "N", "T", "E", "X",
      "T", "_", "P", "A", "Y", "L", "O", "A", "D">>

\* 'DRIFT_DETECTED'
DRIFT_DETECTED ==
    <<"D", "R", "I", "F", "T", "_", "D", "E", "T", "E", "C", "T", "E", "D">>

\* the messages of the exceptions main ends with
ErrorText ==
    \* 'Unsupported case id: '
    [ unsupported |->
        <<"U", "n", "s", "u", "p", "p", "o", "r", "t", "e", "d", " ", "c", "a", "s",
          "e", " ", "i", "d", ":", " ">>,
    \* '. Supported: '
      supported |->
        <<".", " ", "S", "u", "p", "p", "o", "r", "t", "e", "d", ":", " ">>,
    \* ', '
      separator |->
        <<",", " ">>,
    \* 'Use either --plan-only or --execute, not both.'
      either_mode |->
        <<"U", "s", "e", " ", "e", "i", "t", "h", "e", "r", " ", "-", "-", "p", "l",
          "a", "n", "-", "o", "n", "l", "y", " ", "o", "r", " ", "-", "-", "e", "x",
          "e", "c", "u", "t", "e", ",", " ", "n", "o", "t", " ", "b", "o", "t", "h",
          ".">> ]

\* the literals of summarize_project_from_codebase
SummaryText ==
    \* 'name='
    [ name |->
        <<"n", "a", "m", "e", "=">>,
    \* 'docs_md_files='
      docs_md_files |->
        <<"d", "o", "c", "s", "_", "m", "d", "_", "f", "i", "l", "e", "s", "=">>,
    \* 'src_ts_files='
      src_ts_files |->
        <<"s", "r", "c", "_", "t", "s", "_", "f", "i", "l", "e", "s", "=">>,
    \* 'src_tsx_files='
      src_tsx_files |->
        <<"s", "r", "c", "_", "t", "s", "x", "_", "f", "i", "l", "e", "s", "=">>,
    \* 'tooling='
      tooling |->
        <<"t", "o", "o", "l", "i", "n", "g", "=">>,
    \* 'readme_head='
      readme_head |->
        <<"r", "e", "a", "d", "m", "e", "_", "h", "e", "a", "d", "=">>,
    \* 'graph_signal='
      graph_signal |->
        <<"g", "r", "a", "p", "h", "_", "s", "i", "g", "n", "a", "l", "=">>,
    \* 'unknown'
      unknown |->
        <<"u", "n", "k", "n", "o", "w", "n">>,
    \* 'graph unavailable'
      graph_unavailable |->
        <<"g", "r", "a", "p", "h", " ", "u", "n", "a", "v", "a", "i", "l", "a", "b", "l",
          "e">>,
    \* '\n'
      nl |->
        <<"\n">> ]

\* the literals of phase_output
OutputText ==
    \* 'Feature: synthetic retention-check feature\nPlan:\n1) add synthetic implementation file\n2) add synthetic test evidence\n3) update docs artifact\n4) revert synthetic files\n'
    [ feature_plan |->
        <<"F", "e", "a", "t", "u", "r", "e", ":", " ", "s", "y", "n", "t", "h", "e", "t",
          "i", "c", " ", "r", "e", "t", "e", "n", "t", "i", "o", "n", "-", "c", "h", "e",
          "c", "k", " ", "f", "e", "a", "t", "u", "r", "e", "\n", "P", "l", "a", "n", ":",
          "\n", "1", ")", " ", "a", "d", "d", " ", "s", "y", "n", "t", "h", "e", "t", "i",
          "c", " ", "i", "m", "p", "l", "e", "m", "e", "n", "t", "a", "t", "i", "o", "n",
          " ", "f", "i", "l", "e", "\n", "2", ")", " ", "a", "d", "d", " ", "s", "y", "n",
          "t", "h", "e", "t", "i", "c", " ", "t", "e", "s", "t", " ", "e", "v", "i", "d",
          "e", "n", "c", "e", "\n", "3", ")", " ", "u", "p", "d", "a", "t", "e", " ", "d",
          "o", "c", "s", " ", "a", "r", "t", "i", "f", "a", "c", "t", "\n", "4", ")", " ",
          "r", "e", "v", "e", "r", "t", " ", "s", "y", "n", "t", "h", "e", "t", "i", "c",
          " ", "f", "i", "l", "e", "s", "\n">>,
    \* 'context_noise='
      context_noise |->
        <<"c", "o", "n", "t", "e", "x", "t", "_", "n", "o", "i", "s", "e", "=">>,
    \* 'noise_echo='
      noise_echo |->
        <<"n", "o", "i", "s", "e", "_", "e", "c", "h", "o", "=">>,
    \* 'Updated phase docs with plan context and traceability links. DRIFT_DETECTED'
      docs_drift |->
        <<"U", "p", "d", "a", "t", "e", "d", " ", "p", "h", "a", "s", "e", " ", "d", "o",
          "c", "s", " ", "w", "i", "t", "h", " ", "p", "l", "a", "n", " ", "c", "o", "n",
          "t", "e", "x", "t", " ", "a", "n", "d", " ", "t", "r", "a", "c", "e", "a", "b",
          "i", "l", "i", "t", "y", " ", "l", "i", "n", "k", "s", ".", " ", "D", "R", "I",
          "F", "T", "_", "D", "E", "T", "E", "C", "T", "E", "D">>,
    \* 'Updated phase docs with plan context and traceability links. drift_check_inconclusive'
      drift_check_inconclusive |->
        <<"U", "p", "d", "a", "t", "e", "d", " ", "p", "h", "a", "s", "e", " ", "d", "o",
          "c", "s", " ", "w", "i", "t", "h", " ", "p", "l", "a", "n", " ", "c", "o", "n",
          "t", "e", "x", "t", " ", "a", "n", "d", " ", "t", "r", "a", "c", "e", "a", "b",
          "i", "l", "i", "t", "y", " ", "l", "i", "n", "k", "s", ".", " ", "d", "r", "i",
          "f", "t", "_", "c", "h", "e", "c", "k", "_", "i", "n", "c", "o", "n", "c", "l",
          "u", "s", "i", "v", "e">>,
    \* 'Updated phase docs with plan context and traceability links.'
      docs_neutral |->
        <<"U", "p", "d", "a", "t", "e", "d", " ", "p", "h", "a", "s", "e", " ", "d", "o",
          "c", "s", " ", "w", "i", "t", "h", " ", "p", "l", "a", "n", " ", "c", "o", "n",
          "t", "e", "x", "t", " ", "a", "n", "d", " ", "t", "r", "a", "c", "e", "a", "b",
          "i", "l", "i", "t", "y", " ", "l", "i", "n", "k", "s", ".">>,
    \* 'Implemented synthetic feature file: '
      implemented |->
        <<"I", "m", "p", "l", "e", "m", "e", "n", "t", "e", "d", " ", "s", "y", "n", "t",
          "h", "e", "t", "i", "c", " ", "f", "e", "a", "t", "u", "r", "e", " ", "f", "i",
          "l", "e", ":", " ">>,
    \* 'Synthetic tests executed, passed='
      tests_executed |->
        <<"S", "y", "n", "t", "h", "e", "t", "i", "c", " ", "t", "e", "s", "t", "s", " ",
          "e", "x", "e", "c", "u", "t", "e", "d", ",", " ", "p", "a", "s", "s", "e", "d",
          "=">>,
    \* 'Updated post-implementation and test documentation artifacts.'
      docs_post_impl |->
        <<"U", "p", "d", "a", "t", "e", "d", " ", "p", "o", "s", "t", "-", "i", "m", "p",
          "l", "e", "m", "e", "n", "t", "a", "t", "i", "o", "n", " ", "a", "n", "d", " ",
          "t", "e", "s", "t", " ", "d", "o", "c", "u", "m", "e", "n", "t", "a", "t", "i",
          "o", "n", " ", "a", "r", "t", "i", "f", "a", "c", "t", "s", ".">>,
    \* 'Partial revert completed with residual artifact: '
      partial_revert |->
        <<"P", "a", "r", "t", "i", "a", "l", " ", "r", "e", "v", "e", "r", "t", " ", "c",
          "o", "m", "p", "l", "e", "t", "e", "d", " ", "w", "i", "t", "h", " ", "r", "e",
          "s", "i", "d", "u", "a", "l", " ", "a", "r", "t", "i", "f", "a", "c", "t", ":",
          " ">>,
    \* 'Reverted synthetic implementation directory: '
      reverted |->
        <<"R", "e", "v", "e", "r", "t", "e", "d", " ", "s", "y", "n", "t", "h", "e", "t",
          "i", "c", " ", "i", "m", "p", "l", "e", "m", "e", "n", "t", "a", "t", "i", "o",
          "n", " ", "d", "i", "r", "e", "c", "t", "o", "r", "y", ":", " ">>,
    \* 'No synthetic implementation directory found; nothing to revert.'
      nothing_to_revert |->
        <<"N", "o", " ", "s", "y", "n", "t", "h", "e", "t", "i", "c", " ", "i", "m", "p",
          "l", "e", "m", "e", "n", "t", "a", "t", "i", "o", "n", " ", "d", "i", "r", "e",
          "c", "t", "o", "r", "y", " ", "f", "o", "u", "n", "d", ";", " ", "n", "o", "t",
          "h", "i", "n", "g", " ", "t", "o", " ", "r", "e", "v", "e", "r", "t", ".">>,
    \* 'true'
      true |->
        <<"t", "r", "u", "e">>,
    \* 'false'
      false |->
        <<"f", "a", "l", "s", "e">> ]

\* the literals of the artifact paths, relative to ROOT
PathText ==
    \* 'benchmarks/agent_mode_artifacts'
    [ artifacts_root |->
        <<"b", "e", "n", "c", "h", "m", "a", "r", "k", "s", "/", "a", "g", "e", "n", "t",
          "_", "m", "o", "d", "e", "_", "a", "r", "t", "i", "f", "a", "c", "t", "s">>,
    \* 'synthetic_impl'
      synthetic_impl |->
        <<"s", "y", "n", "t", "h", "e", "t", "i", "c", "_", "i", "m", "p", "l">>,
    \* 'feature_plan.ts'
      feature_plan_ts |->
        <<"f", "e", "a", "t", "u", "r", "e", "_", "p", "l", "a", "n", ".", "t", "s">>,
    \* 'residual.lock'
      residual_lock |->
        <<"r", "e", "s", "i", "d", "u", "a", "l", ".", "l", "o", "c", "k">>,
    \* '/'
      slash |->
        <<"/">> ]

\* the substrings phase_accuracy and phase_change_tracking_score look for
Markers ==
    \* 'Implemented synthetic feature'
    [ impl |->
        <<"I", "m", "p", "l", "e", "m", "e", "n", "t", "e", "d", " ", "s", "y", "n", "t",
          "h", "e", "t", "i", "c", " ", "f", "e", "a", "t", "u", "r", "e">>,
    \* 'passed=true'
      passed |->
        <<"p", "a", "s", "s", "e", "d", "=", "t", "r", "u", "e">>,
    \* 'Reverted synthetic'
      reverted |->
        <<"R", "e", "v", "e", "r", "t", "e", "d", " ", "s", "y", "n", "t", "h", "e", "t",
          "i", "c">>,
    \* 'nothing to revert'
      nothing |->
        <<"n", "o", "t", "h", "i", "n", "g", " ", "t", "o", " ", "r", "e", "v", "e", "r",
          "t">>,
    \* 'synthetic'
      synthetic |->
        <<"s", "y", "n", "t", "h", "e", "t", "i", "c">>,
    \* 'context'
      context |->
        <<"c", "o", "n", "t", "e", "x", "t">>,
    \* 'trace'
      trace |->
        <<"t", "r", "a", "c", "e">>,
    \* 'docs'
      docs |->
        <<"d", "o", "c", "s">>,
    \* 'documentation'
      documentation |->
        <<"d", "o", "c", "u", "m", "e", "n", "t", "a", "t", "i", "o", "n">>,
    \* 'phase'
      phase |->
        <<"p", "h", "a", "s", "e">>,
    \* 'revert'
      revert |->
        <<"r", "e", "v", "e", "r", "t">> ]

\* the literals of seed_phase_context
ContextText ==
    \* 'case='
    [ case |->
        <<"c", "a", "s", "e", "=">>,
    \* '; method='
      method |->
        <<";", " ", "m", "e", "t", "h", "o", "d", "=">>,
    \* '; phase='
      phase |->
        <<";", " ", "p", "h", "a", "s", "e", "=">>,
    \* '; prompt='
      prompt |->
        <<";", " ", "p", "r", "o", "m", "p", "t", "=">>,
    \* '; boundary='
      boundary |->
        <<";", " ", "b", "o", "u", "n", "d", "a", "r", "y", "=">>,
    \* '; prev_phase='
      prev_phase |->
        <<";", " ", "p", "r", "e", "v", "_", "p", "h", "a", "s", "e", "=">>,
    \* '; prev_hash='
      prev_hash |->
        <<";", " ", "p", "r", "e", "v", "_", "h", "a", "s", "h", "=">>,
    \* 'none'
      none |->
        <<"n", "o", "n", "e">> ]

\* the literals of canonicalize_paths and compress_text
CanonText ==
    \* '/workspace/'
    [ workspace |->
        <<"/", "w", "o", "r", "k", "s", "p", "a", "c", "e", "/">>,
    \* '/home/'
      home |->
        <<"/", "h", "o", "m", "e", "/">>,
    \* '...'
      ellipsis |->
        <<".", ".", ".">> ]

\* the texts of the repositories, endpoint answers and run ids the model draws
SampleText ==
    \* 'lxrag-mcp'
    [ pkg_name |->
        <<"l", "x", "r", "a", "g", "-", "m", "c", "p">>,
    \* 'build,test'
      scripts |->
        <<"b", "u", "i", "l", "d", ",", "t", "e", "s", "t">>,
    \* 'build,test,lint,start,benchmark:tools,benchmark:agent,benchmark:check'
      scripts_long |->
        <<"b", "u", "i", "l", "d", ",", "t", "e", "s", "t", ",", "l", "i", "n", "t", ",",
          "s", "t", "a", "r", "t", ",", "b", "e", "n", "c", "h", "m", "a", "r", "k", ":",
          "t", "o", "o", "l", "s", ",", "b", "e", "n", "c", "h", "m", "a", "r", "k", ":",
          "a", "g", "e", "n", "t", ",", "b", "e", "n", "c", "h", "m", "a", "r", "k", ":",
          "c", "h", "e", "c", "k">>,
    \* '# lxRAG MCP\nCode graph tools for agents.'
      readme_plain |->
        <<"#", " ", "l", "x", "R", "A", "G", " ", "M", "C", "P", "\n", "C", "o", "d", "e",
          " ", "g", "r", "a", "p", "h", " ", "t", "o", "o", "l", "s", " ", "f", "o", "r",
          " ", "a", "g", "e", "n", "t", "s", ".">>,
    \* '# lxRAG MCP\nReplay log: UNRELATED_CONTEXT_PAYLOAD seen.'
      readme_noisy |->
        <<"#", " ", "l", "x", "R", "A", "G", " ", "M", "C", "P", "\n", "R", "e", "p", "l",
          "a", "y", " ", "l", "o", "g", ":", " ", "U", "N", "R", "E", "L", "A", "T", "E",
          "D", "_", "C", "O", "N", "T", "E", "X", "T", "_", "P", "A", "Y", "L", "O", "A",
          "D", " ", "s", "e", "e", "n", ".">>,
    \* 'graph server indexes docs and source files\n'
      readme_line |->
        <<"g", "r", "a", "p", "h", " ", "s", "e", "r", "v", "e", "r", " ", "i", "n", "d",
          "e", "x", "e", "s", " ", "d", "o", "c", "s", " ", "a", "n", "d", " ", "s", "o",
          "u", "r", "c", "e", " ", "f", "i", "l", "e", "s", "\n">>,
    \* 'modules: src/server, src/graph, docs'
      graph_text |->
        <<"m", "o", "d", "u", "l", "e", "s", ":", " ", "s", "r", "c", "/", "s", "e", "r",
          "v", "e", "r", ",", " ", "s", "r", "c", "/", "g", "r", "a", "p", "h", ",", " ",
          "d", "o", "c", "s">>,
    \* '20261105T05325'
      run_prefix |->
        <<"2", "0", "2", "6", "1", "1", "0", "5", "T", "0", "5", "3", "2", "5">>,
    \* '.079151+0000'
      run_suffix |->
        <<".", "0", "7", "9", "1", "5", "1", "+", "0", "0", "0", "0">> ]

\* the phase names as texts
PhaseNameText ==
    \* 'pre_summary'
    [ pre_summary |->
        <<"p", "r", "e", "_", "s", "u", "m", "m", "a", "r", "y">>,
    \* 'feature_plan'
      feature_plan |->
        <<"f", "e", "a", "t", "u", "r", "e", "_", "p", "l", "a", "n">>,
    \* 'docs_step_update'
      docs_step_update |->
        <<"d", "o", "c", "s", "_", "s", "t", "e", "p", "_", "u", "p", "d", "a", "t", "e">>,
    \* 'implementation'
      implementation |->
        <<"i", "m", "p", "l", "e", "m", "e", "n", "t", "a", "t", "i", "o", "n">>,
    \* 'tests'
      tests |->
        <<"t", "e", "s", "t", "s">>,
    \* 'docs_post_impl'
      docs_post_impl |->
        <<"d", "o", "c", "s", "_", "p", "o", "s", "t", "_", "i", "m", "p", "l">>,
    \* 'revert_and_cleanup'
      revert_and_cleanup |->
        <<"r", "e", "v", "e", "r", "t", "_", "a", "n", "d", "_", "c", "l", "e", "a", "n",
          "u", "p">>,
    \* 'post_summary'
      post_summary |->
        <<"p", "o", "s", "t", "_", "s", "u", "m", "m", "a", "r", "y">> ]

\* PHASE_CONTEXT_TEMPLATES
PHASE_CONTEXT_TEMPLATES ==
    \* 'Summarize repository state from docs+code only.'
    [ pre_summary |->
        <<"S", "u", "m", "m", "a", "r", "i", "z", "e", " ", "r", "e", "p", "o", "s", "i",
          "t", "o", "r", "y", " ", "s", "t", "a", "t", "e", " ", "f", "r", "o", "m", " ",
          "d", "o", "c", "s", "+", "c", "o", "d", "e", " ", "o", "n", "l", "y", ".">>,
    \* 'Create minimal feature plan from current state and constraints.'
      feature_plan |->
        <<"C", "r", "e", "a", "t", "e", " ", "m", "i", "n", "i", "m", "a", "l", " ", "f",
          "e", "a", "t", "u", "r", "e", " ", "p", "l", "a", "n", " ", "f", "r", "o", "m",
          " ", "c", "u", "r", "r", "e", "n", "t", " ", "s", "t", "a", "t", "e", " ", "a",
          "n", "d", " ", "c", "o", "n", "s", "t", "r", "a", "i", "n", "t", "s", ".">>,
    \* 'Update step docs using plan deltas only.'
      docs_step_update |->
        <<"U", "p", "d", "a", "t", "e", " ", "s", "t", "e", "p", " ", "d", "o", "c", "s",
          " ", "u", "s", "i", "n", "g", " ", "p", "l", "a", "n", " ", "d", "e", "l", "t",
          "a", "s", " ", "o", "n", "l", "y", ".">>,
    \* 'Apply minimal implementation according to plan.'
      implementation |->
        <<"A", "p", "p", "l", "y", " ", "m", "i", "n", "i", "m", "a", "l", " ", "i", "m",
          "p", "l", "e", "m", "e", "n", "t", "a", "t", "i", "o", "n", " ", "a", "c", "c",
          "o", "r", "d", "i", "n", "g", " ", "t", "o", " ", "p", "l", "a", "n", ".">>,
    \* 'Run scoped tests and return compact evidence.'
      tests |->
        <<"R", "u", "n", " ", "s", "c", "o", "p", "e", "d", " ", "t", "e", "s", "t", "s",
          " ", "a", "n", "d", " ", "r", "e", "t", "u", "r", "n", " ", "c", "o", "m", "p",
          "a", "c", "t", " ", "e", "v", "i", "d", "e", "n", "c", "e", ".">>,
    \* 'Update implementation/test docs with final evidence.'
      docs_post_impl |->
        <<"U", "p", "d", "a", "t", "e", " ", "i", "m", "p", "l", "e", "m", "e", "n", "t",
          "a", "t", "i", "o", "n", "/", "t", "e", "s", "t", " ", "d", "o", "c", "s", " ",
          "w", "i", "t", "h", " ", "f", "i", "n", "a", "l", " ", "e", "v", "i", "d", "e",
          "n", "c", "e", ".">>,
    \* 'Revert synthetic changes and verify clean state.'
      revert_and_cleanup |->
        <<"R", "e", "v", "e", "r", "t", " ", "s", "y", "n", "t", "h", "e", "t", "i", "c",
          " ", "c", "h", "a", "n", "g", "e", "s", " ", "a", "n", "d", " ", "v", "e", "r",
          "i", "f", "y", " ", "c", "l", "e", "a", "n", " ", "s", "t", "a", "t", "e", ".">>,
    \* 'Summarize repository again using docs+code only.'
      post_summary |->
        <<"S", "u", "m", "m", "a", "r", "i", "z", "e", " ", "r", "e", "p", "o", "s", "i",
          "t", "o", "r", "y", " ", "a", "g", "a", "i", "n", " ", "u", "s", "i", "n", "g",
          " ", "d", "o", "c", "s", "+", "c", "o", "d", "e", " ", "o", "n", "l", "y", ".">> ]

\* AgentPhase.context_boundary of each catalog phase
ContextBoundaryText ==
    \* 'Fresh context: docs + codebase only.'
    [ pre_summary |->
        <<"F", "r", "e", "s", "h", " ", "c", "o", "n", "t", "e", "x", "t", ":", " ", "d",
          "o", "c", "s", " ", "+", " ", "c", "o", "d", "e", "b", "a", "s", "e", " ", "o",
          "n", "l", "y", ".">>,
    \* 'Use only phase 1 summary + live code/docs.'
      feature_plan |->
        <<"U", "s", "e", " ", "o", "n", "l", "y", " ", "p", "h", "a", "s", "e", " ", "1",
          " ", "s", "u", "m", "m", "a", "r", "y", " ", "+", " ", "l", "i", "v", "e", " ",
          "c", "o", "d", "e", "/", "d", "o", "c", "s", ".">>,
    \* 'Use only plan artifacts and repository docs.'
      docs_step_update |->
        <<"U", "s", "e", " ", "o", "n", "l", "y", " ", "p", "l", "a", "n", " ", "a", "r",
          "t", "i", "f", "a", "c", "t", "s", " ", "a", "n", "d", " ", "r", "e", "p", "o",
          "s", "i", "t", "o", "r", "y", " ", "d", "o", "c", "s", ".">>,
    \* 'Use plan + current code only; no hidden assumptions.'
      implementation |->
        <<"U", "s", "e", " ", "p", "l", "a", "n", " ", "+", " ", "c", "u", "r", "r", "e",
          "n", "t", " ", "c", "o", "d", "e", " ", "o", "n", "l", "y", ";", " ", "n", "o",
          " ", "h", "i", "d", "d", "e", "n", " ", "a", "s", "s", "u", "m", "p", "t", "i",
          "o", "n", "s", ".">>,
    \* 'Use changed files + nearest tests only.'
      tests |->
        <<"U", "s", "e", " ", "c", "h", "a", "n", "g", "e", "d", " ", "f", "i", "l", "e",
          "s", " ", "+", " ", "n", "e", "a", "r", "e", "s", "t", " ", "t", "e", "s", "t",
          "s", " ", "o", "n", "l", "y", ".">>,
    \* 'Use only verified implementation + test outputs.'
      docs_post_impl |->
        <<"U", "s", "e", " ", "o", "n", "l", "y", " ", "v", "e", "r", "i", "f", "i", "e",
          "d", " ", "i", "m", "p", "l", "e", "m", "e", "n", "t", "a", "t", "i", "o", "n",
          " ", "+", " ", "t", "e", "s", "t", " ", "o", "u", "t", "p", "u", "t", "s", ".">>,
    \* 'Use VCS state and execution manifest only.'
      revert_and_cleanup |->
        <<"U", "s", "e", " ", "V", "C", "S", " ", "s", "t", "a", "t", "e", " ", "a", "n",
          "d", " ", "e", "x", "e", "c", "u", "t", "i", "o", "n", " ", "m", "a", "n", "i",
          "f", "e", "s", "t", " ", "o", "n", "l", "y", ".">>,
    \* 'Fresh context reset: docs + codebase only, no execution diffs.'
      post_summary |->
        <<"F", "r", "e", "s", "h", " ", "c", "o", "n", "t", "e", "x", "t", " ", "r", "e",
          "s", "e", "t", ":", " ", "d", "o", "c", "s", " ", "+", " ", "c", "o", "d", "e",
          "b", "a", "s", "e", " ", "o", "n", "l", "y", ",", " ", "n", "o", " ", "e", "x",
          "e", "c", "u", "t", "i", "o", "n", " ", "d", "i", "f", "f", "s", ".">> ]

\* the method names as texts
MethodText ==
    \* 'graph'
    [ graph |->
        <<"g", "r", "a", "p", "h">>,
    \* 'baseline'
      baseline |->
        <<"b", "a", "s", "e", "l", "i", "n", "e">> ]

\* the case ids as texts
CaseIdText ==
    \* 'A001'
    [ A001 |->
        <<"A", "0", "0", "1">>,
    \* 'A002'
      A002 |->
        <<"A", "0", "0", "2">>,
    \* 'A003'
      A003 |->
        <<"A", "0", "0", "3">>,
    \* 'A004'
      A004 |->
        <<"A", "0", "0", "4">>,
    \* 'A999'
      A999 |->
        <<"A", "9", "9", "9">> ]

\* the printable ASCII characters with codes 32..95
AsciiLow ==
    <<" ", "!", "\"", "#", "$", "%", "&", "'", "(", ")", "*", "+", ",", "-", ".", "/",
      "0", "1", "2", "3", "4", "5", "6", "7", "8", "9", ":", ";", "<", "=", ">", "?",
      "@", "A", "B", "C", "D", "E", "F", "G", "H", "I", "J", "K", "L", "M", "N", "O",
      "P", "Q", "R", "S", "T", "U", "V", "W", "X", "Y", "Z", "[", "\\", "]", "^", "_">>
\* the printable ASCII characters with codes 97..126
AsciiHigh ==
    <<"a", "b", "c", "d", "e", "f", "g", "h", "i", "j", "k", "l", "m", "n", "o", "p",
      "q", "r", "s", "t", "u", "v", "w", "x", "y", "z", "{", "|", "}", "~">>

-----------------------------------------------------------------------------
(* Python string primitives.                                               *)

Min(a, b) == IF a <= b THEN a ELSE b
Max(a, b) == IF a >= b THEN a ELSE b

\* the least element of a non-empty set of integers
Least(S) == CHOOSE x \in S : \A y \in S : x <= y

\* ceil(a / b) for a >= 0, b > 0
CeilDiv(a, b) == (a + b - 1) \div b

UpperSeq ==
    <<"A", "B", "C", "D", "E", "F", "G", "H", "I", "J", "K", "L", "M",
      "N", "O", "P", "Q", "R", "S", "T", "U", "V", "W", "X", "Y", "Z">>
LowerSeq ==
    <<"a", "b", "c", "d", "e", "f", "g", "h", "i", "j", "k", "l", "m",
      "n", "o", "p", "q", "r", "s", "t", "u", "v", "w", "x", "y", "z">>
DigitSeq ==
    <<"0", "1", "2", "3", "4", "5", "6", "7", "8", "9">>
HexSeq ==
    <<"0", "1", "2", "3", "4", "5", "6", "7", "8", "9", "a", "b", "c", "d", "e", "f">>

\* str.lower() on the upper-case letters
LowerTable == [c \in {UpperSeq[i] : i \in 1..26} |->
                  LowerSeq[CHOOSE i \in 1..26 : UpperSeq[i] = c]] @@ <<>>

\* str.lower() on one character
LowerChar(c) == IF c \in DOMAIN LowerTable THEN LowerTable[c] ELSE c

\* str.lower()
Lower(t) == SubSeq([i \in 1..Len(t) |-> LowerChar(t[i])], 1, Len(t))

\* the characters str.split() and str.strip() treat as whitespace
IsSpace(c) == c \in {" ", "\n", "\t", "\r", "\f"}

\* t[i:i+len(s)] == s   (i is 1-based)
MatchAt(t, i, s) ==
    /\ i >= 1
    /\ i + Len(s) - 1 <= Len(t)
    /\ \A j \in 1..Len(s) : t[i + j - 1] = s[j]

\* s in t
Contains(t, s) == \E i \in 1..(Len(t) - Len(s) + 1) : MatchAt(t, i, s)

\* t[:k] with the meaning Python gives of a negative k
SliceTo(t, k) ==
    IF k >= 0 THEN SubSeq(t, 1, Min(k, Len(t)))
    ELSE SubSeq(t, 1, Max(0, Len(t) + k))

\* str(n) for 0 <= n
RECURSIVE DecText(_)
DecText(n) ==
    IF n < 10 THEN <<DigitSeq[n + 1]>>
    ELSE DecText(n \div 10) \o <<DigitSeq[(n % 10) + 1]>>

\* position of the first occurrence of old in t at or after from, 0 when none
FirstFrom(t, old, from) ==
    LET C == {i \in from..Len(t) : MatchAt(t, i, old)}
    IN  IF C = {} THEN 0 ELSE Least(C)

\* str.replace(old, new): leftmost occurrences, never overlapping
RECURSIVE ReplaceFrom(_, _, _, _)
ReplaceFrom(t, old, new, from) ==
    LET m == FirstFrom(t, old, from)
    IN  IF m = 0 THEN SubSeq(t, from, Len(t))
        ELSE SubSeq(t, from, m - 1) \o new \o ReplaceFrom(t, old, new, m + Len(old))

str_replace(t, old, new) == ReplaceFrom(t, old, new, 1)

\* position of the first "/" of t at or after from, 0 when none
NextSlash(t, from) ==
    LET C == {i \in from..Len(t) : t[i] = "/"}
    IN  IF C = {} THEN 0 ELSE Least(C)

\* length of the match of the pattern /home/[^/]+/[^/]+/ that starts at i, 0 when none
HomeMatchLen(t, i) ==
    IF ~MatchAt(t, i, CanonText.home) THEN 0
    ELSE LET a  == i + Len(CanonText.home)
             s1 == NextSlash(t, a)
         IN  IF s1 = 0 \/ s1 = a THEN 0
             ELSE LET s2 == NextSlash(t, s1 + 1)
                  IN  IF s2 = 0 \/ s2 = s1 + 1 THEN 0 ELSE s2 - i + 1

\* re.sub(r"/home/[^/]+/[^/]+/", "", t): leftmost matches, never overlapping
RECURSIVE SubHomeFrom(_, _)
SubHomeFrom(t, from) ==
    LET C == {i \in from..Len(t) : HomeMatchLen(t, i) > 0}
    IN  IF C = {} THEN SubSeq(t, from, Len(t))
        ELSE LET m == Least(C)
             IN  SubSeq(t, from, m - 1) \o SubHomeFrom(t, m + HomeMatchLen(t, m))

\* set(t.lower().split())
Words(t) ==
    LET l == Lower(t)
        n == Len(l)
        starts == {i \in 1..n : ~IsSpace(l[i]) /\ (i = 1 \/ IsSpace(l[i - 1]))}
        EndOf(i) == Least({j \in i..n : j = n \/ IsSpace(l[j + 1])})
    IN  {SubSeq(l, i, EndOf(i)) : i \in starts}

\* len(t.strip())
StripLen(t) ==
    LET K == {i \in 1..Len(t) : ~IsSpace(t[i])}
    IN  IF K = {} THEN 0
        ELSE LET first == Least(K)
                 back  == Least({d \in 0..(Len(t) - 1) : ~IsSpace(t[Len(t) - d])})
             IN  (Len(t) - back) - first + 1

-----------------------------------------------------------------------------
(* Metric primitives.                                                      *)

\* estimate_tokens
estimate_tokens(text) == Max(1, CeilDiv(Len(text), 4))

\* canonicalize_paths
canonicalize_paths(text) ==
    LET n1 == str_replace(text, CanonText.workspace, <<>>)
        n2 == SubHomeFrom(n1, 1)
    IN  str_replace(n2, <<"/", "/">>, PathText.slash)

\* compress_text
compress_text(text, max_chars) ==
    LET clean == canonicalize_paths(text)
    IN  IF Len(clean) <= max_chars THEN clean
        ELSE SliceTo(clean, max_chars - 3) \o CanonText.ellipsis

\* ord(c) for the characters texts are made of
Ord(c) ==
    IF c = "\n" THEN 10
    ELSE IF \E i \in 1..Len(AsciiLow) : AsciiLow[i] = c
         THEN 31 + (CHOOSE i \in 1..Len(AsciiLow) : AsciiLow[i] = c)
         ELSE 96 + (CHOOSE i \in 1..Len(AsciiHigh) : AsciiHigh[i] = c)

\* Ord as a table
OrdTable ==
    [c \in {AsciiLow[i] : i \in 1..Len(AsciiLow)} \cup {AsciiHigh[i] : i \in 1..Len(AsciiHigh)}
            \cup {"\n"} |-> Ord(c)] @@ <<>>

\* hex rendering of v in `digits` characters
RECURSIVE HexText(_, _)
HexText(v, digits) ==
    IF digits = 0 THEN <<>>
    ELSE HexText(v \div 16, digits - 1) \o <<HexSeq[(v % 16) + 1]>>

\* position-weighted checksum of t[lo..hi]
RECURSIVE WeightSum(_, _, _, _)
WeightSum(t, lo, hi, w) ==
    IF lo > hi THEN 0
    ELSE IF lo = hi THEN OrdTable[t[lo]] * (((lo * w) % 251) + 1)
    ELSE LET mid == (lo + hi) \div 2
         IN  (WeightSum(t, lo, mid, w) + WeightSum(t, mid + 1, hi, w)) % (16^6)

\* hash_text: 12 hexadecimal characters determined by the text (SHA-1 itself is
\* not computed; this is a deterministic fingerprint of the same shape)
hash_text(text) ==
    HexText(WeightSum(text, 1, Len(text), 7), 6) \o HexText(WeightSum(text, 1, Len(text), 13), 6)

-----------------------------------------------------------------------------
(* Configuration: methods, case profile registry, phase catalog.           *)

\* the methods, in the order execute_agent_plan runs them
Methods == <<"graph", "baseline">>

MethodSet == {"graph", "baseline"}

\* the case ids of the registry of get_case_profile
SupportedCases == {"A001", "A002", "A003", "A004"}

\* the values --case-id takes in the model: the registry and one unknown id
CaseIds == SupportedCases \cup {"A999"}

\* get_case_profile, for a case id of the registry
get_case_profile(case_id) ==
    [case_id                 |-> case_id,
     inject_context_noise    |-> (case_id = "A002"),
     detect_doc_drift        |-> (case_id = "A003"),
     stress_revert_integrity |-> (case_id = "A004")]

\* a catalog whose implementation phase requires a revert too
build_agent_phases_two_reverts ==
    << [phase_order |-> 1, phase_name |-> "pre_summary",        requires_revert |-> FALSE],
       [phase_order |-> 2, phase_name |-> "feature_plan",       requires_revert |-> FALSE],
       [phase_order |-> 3, phase_name |-> "docs_step_update",   requires_revert |-> FALSE],
       [phase_order |-> 4, phase_name |-> "implementation",     requires_revert |-> TRUE],
       [phase_order |-> 5, phase_name |-> "tests",              requires_revert |-> FALSE],
       [phase_order |-> 6, phase_name |-> "docs_post_impl",     requires_revert |-> FALSE],
       [phase_order |-> 7, phase_name |-> "revert_and_cleanup", requires_revert |-> TRUE],
       [phase_order |-> 8, phase_name |-> "post_summary",       requires_revert |-> FALSE] >>

\* build_agent_phases: phase_order, phase_name and requires_revert of the catalog
build_agent_phases ==
    << [phase_order |-> 1, phase_name |-> "pre_summary",        requires_revert |-> FALSE],
       [phase_order |-> 2, phase_name |-> "feature_plan",       requires_revert |-> FALSE],
       [phase_order |-> 3, phase_name |-> "docs_step_update",   requires_revert |-> FALSE],
       [phase_order |-> 4, phase_name |-> "implementation",     requires_revert |-> FALSE],
       [phase_order |-> 5, phase_name |-> "tests",              requires_revert |-> FALSE],
       [phase_order |-> 6, phase_name |-> "docs_post_impl",     requires_revert |-> FALSE],
       [phase_order |-> 7, phase_name |-> "revert_and_cleanup", requires_revert |-> TRUE],
       [phase_order |-> 8, phase_name |-> "post_summary",       requires_revert |-> FALSE] >>

PhaseCount == Len(build_agent_phases)

\* no function is called on its own
NoCall == [fn |-> ""]

-----------------------------------------------------------------------------
(* The environment: the benchmarked repository and the query endpoint.     *)

\* n copies of the text t
Repeat(t, n) == SubSeq([i \in 1..(n * Len(t)) |-> t[((i - 1) % Len(t)) + 1]], 1, n * Len(t))

\* the repositories of the model, as summarize_project_from_codebase reads them:
\* package name and script names, file counts, and the first 20 README lines joined
Repos ==
    { [name |-> SampleText.pkg_name, scripts |-> SampleText.scripts, docs |-> 3, ts |-> 12, tsx |-> 0,
       readme |-> SampleText.readme_plain],
      [name |-> SampleText.pkg_name, scripts |-> SampleText.scripts, docs |-> 3, ts |-> 12, tsx |-> 0,
       readme |-> SampleText.readme_noisy],
      [name |-> SampleText.pkg_name, scripts |-> SampleText.scripts_long, docs |-> 3, ts |-> 12, tsx |-> 0,
       readme |-> SliceTo(Repeat(SampleText.readme_line, 20), 0 - 1)] }

\* Python values the query endpoint's answer can carry in its "text" member
PyStr(text) == [type |-> "str", text |-> text]
PyInt(value) == [type |-> "int", value |-> value]

\* bool(v) of Python
Truthy(v) == IF v.type = "str" THEN v.text # <<>> ELSE v.value # 0

\* what the curl call of run_mcp_graph_query can end with: subprocess.TimeoutExpired; an
\* exit with an empty stdout (among them the non-zero exits of curl -s); a stdout that
\* json.loads rejects; a JSON document without result.content[0] (not an object, result
\* null, content empty); a JSON document with result.content[0], whose "text" member is
\* absent, a text, or a number
GraphResponses ==
    { [outcome |-> "timeout",      text |-> PyStr(<<>>)],
      [outcome |-> "nonzero_exit", text |-> PyStr(<<>>)],
      [outcome |-> "empty",        text |-> PyStr(<<>>)],
      [outcome |-> "unparseable",  text |-> PyStr(<<>>)],
      [outcome |-> "unexpected",   text |-> PyStr(<<>>)],
      [outcome |-> "content",      text |-> PyStr(<<>>)],
      [outcome |-> "content",      text |-> PyStr(SampleText.graph_text)],
      [outcome |-> "content",      text |-> PyInt(5)] }

\* run_mcp_graph_query: every exception of the call and of the parsing is caught and gives
\* the empty text; the "text" member of a parsed answer is returned as it is
run_mcp_graph_query(response) ==
    IF response.outcome = "content" THEN response.text ELSE PyStr(<<>>)

\* what run_mcp_graph_query can return
GraphAnswers == {run_mcp_graph_query(response) : response \in GraphResponses}

\* graph_text[:400] if graph_text else "graph unavailable" raises TypeError for a truthy
\* value that is not subscriptable
graph_note_raises(use_graph, graph_text) ==
    use_graph /\ Truthy(graph_text) /\ graph_text.type # "str"

\* summarize_project_from_codebase; graph_text is the answer of run_mcp_graph_query
summarize_project_from_codebase(rp, use_graph, graph_text) ==
    LET graph_note == IF use_graph
                      THEN (IF Truthy(graph_text) THEN SliceTo(graph_text.text, 400)
                            ELSE SummaryText.graph_unavailable)
                      ELSE <<>>
        summary == SummaryText.name \o rp.name \o SummaryText.nl
                   \o SummaryText.docs_md_files \o DecText(rp.docs) \o SummaryText.nl
                   \o SummaryText.src_ts_files \o DecText(rp.ts) \o SummaryText.nl
                   \o SummaryText.src_tsx_files \o DecText(rp.tsx) \o SummaryText.nl
                   \o SummaryText.tooling \o rp.scripts \o SummaryText.nl
                   \o SummaryText.readme_head \o SliceTo(rp.readme, 500) \o SummaryText.nl
                   \o SummaryText.graph_signal \o graph_note \o SummaryText.nl
    IN  compress_text(summary, MAX_OUTPUT_CHARS)

-----------------------------------------------------------------------------
(* Phase executor: context, output and scores of one phase.                *)

\* run_id as text: a timestamp without ":" and "-"
RunIdText(run_id) == SampleText.run_prefix \o DecText(run_id) \o SampleText.run_suffix

\* (ARTIFACTS_ROOT / run_id / method / "synthetic_impl").relative_to(ROOT)
ImplDirText(run_id, method) ==
    PathText.artifacts_root \o PathText.slash \o RunIdText(run_id) \o PathText.slash \o MethodText[method]
    \o PathText.slash \o PathText.synthetic_impl

\* seed_phase_context; "" is the empty text
seed_phase_context(phase, method, previous_phase_, previous_hash_, case_id) ==
    LET compact_context ==
            ContextText.case \o CaseIdText[case_id] \o ContextText.method \o MethodText[method]
            \o ContextText.phase \o PhaseNameText[phase.phase_name]
            \o ContextText.prompt \o PHASE_CONTEXT_TEMPLATES[phase.phase_name]
            \o ContextText.boundary \o ContextBoundaryText[phase.phase_name]
            \o ContextText.prev_phase \o (IF previous_phase_ # "" THEN PhaseNameText[previous_phase_]
                                  ELSE ContextText.none)
            \o ContextText.prev_hash \o (IF previous_hash_ # <<>> THEN previous_hash_ ELSE ContextText.none)
    IN  compress_text(compact_context, MAX_CONTEXT_CHARS)

\* the files and directories of one (run, method) below ARTIFACTS_ROOT
File(run_id, method, kind, n) == [run |-> run_id, method |-> method, kind |-> kind, n |-> n]

ImplDir(run_id, method)   == File(run_id, method, "synthetic_impl", 0)
ImplFile(run_id, method)  == File(run_id, method, "feature_plan.ts", 0)
TestFile(run_id, method)  == File(run_id, method, "feature_plan.test.txt", 0)
Residual(run_id, method)  == File(run_id, method, "residual.lock", 0)
DriftSeed(run_id, method) == File(run_id, method, "drift_seed.md", 0)
Artifact(run_id, method, phase) == File(run_id, method, "artifact", phase.phase_order)

\* the entries of the synthetic_impl directory of one (run, method)
ImplChildren(files, run_id, method) ==
    files \cap {ImplFile(run_id, method), TestFile(run_id, method), Residual(run_id, method)}

\* phase_output, the text returned; files is the file system before the call and
\* summary the digest summarize_project_from_codebase gives at that moment
phase_output(run_id, method, phase, pre_summary_, case_profile, files, summary) ==
    IF phase.phase_name = "pre_summary" THEN pre_summary_
    ELSE IF phase.phase_name = "feature_plan" THEN
        compress_text(
            IF case_profile.inject_context_noise
            THEN OutputText.feature_plan \o OutputText.context_noise \o NOISE_TOKEN \o SummaryText.nl
            ELSE OutputText.feature_plan,
            MAX_OUTPUT_CHARS)
    ELSE IF phase.phase_name = "docs_step_update" /\ case_profile.detect_doc_drift THEN
        IF method = "graph" THEN compress_text(OutputText.docs_drift, MAX_OUTPUT_CHARS)
        ELSE compress_text(OutputText.docs_neutral, MAX_OUTPUT_CHARS)
    ELSE IF phase.phase_name = "implementation" THEN
        compress_text(OutputText.implemented \o ImplDirText(run_id, method) \o PathText.slash \o PathText.feature_plan_ts,
                      MAX_OUTPUT_CHARS)
    ELSE IF phase.phase_name = "tests" THEN
        compress_text(
            OutputText.tests_executed \o (IF ImplFile(run_id, method) \in files THEN OutputText.true ELSE OutputText.false),
            MAX_OUTPUT_CHARS)
    ELSE IF phase.phase_name = "docs_post_impl" THEN
        compress_text(OutputText.docs_post_impl, MAX_OUTPUT_CHARS)
    ELSE IF phase.phase_name = "revert_and_cleanup" THEN
        IF ImplDir(run_id, method) \in files THEN
            IF case_profile.stress_revert_integrity /\ method = "baseline" THEN
                compress_text(OutputText.partial_revert \o ImplDirText(run_id, method) \o PathText.slash
                              \o PathText.residual_lock, MAX_OUTPUT_CHARS)
            ELSE compress_text(OutputText.reverted \o ImplDirText(run_id, method), MAX_OUTPUT_CHARS)
        ELSE compress_text(OutputText.nothing_to_revert, MAX_OUTPUT_CHARS)
    ELSE IF phase.phase_name = "post_summary" THEN
        compress_text(
            IF case_profile.inject_context_noise /\ method = "baseline"
            THEN summary \o OutputText.noise_echo \o NOISE_TOKEN \o SummaryText.nl
            ELSE summary,
            MAX_OUTPUT_CHARS)
    ELSE <<>>

\* phase_output whose revert removes the whole directory for every method and case
phase_files_full_revert(run_id, method, phase, case_profile, files) ==
    IF phase.phase_name = "feature_plan" /\ case_profile.detect_doc_drift THEN
        files \cup {DriftSeed(run_id, method)}
    ELSE IF phase.phase_name = "implementation" THEN
        files \cup {ImplDir(run_id, method), ImplFile(run_id, method)}
    ELSE IF phase.phase_name = "tests" THEN
        files \cup {ImplDir(run_id, method), TestFile(run_id, method)}
    ELSE IF phase.phase_name = "revert_and_cleanup" THEN
        files \ ({ImplDir(run_id, method)} \cup ImplChildren(files, run_id, method))
    ELSE files

\* a revert that removes the synthetic implementation directory of every method of the run
phase_files_revert_all_methods(run_id, method, phase, case_profile, files) ==
    IF phase.phase_name = "feature_plan" /\ case_profile.detect_doc_drift THEN
        files \cup {DriftSeed(run_id, method)}
    ELSE IF phase.phase_name = "implementation" THEN
        files \cup {ImplDir(run_id, method), ImplFile(run_id, method)}
    ELSE IF phase.phase_name = "tests" THEN
        files \cup {ImplDir(run_id, method), TestFile(run_id, method)}
    ELSE IF phase.phase_name = "revert_and_cleanup" /\ ImplDir(run_id, method) \in files THEN
        files \ UNION {{ImplDir(run_id, m)} \cup ImplChildren(files, run_id, m) : m \in {"graph", "baseline"}}
    ELSE files

\* phase_output, the file system it leaves
phase_files(run_id, method, phase, case_profile, files) ==
    IF phase.phase_name = "feature_plan" /\ case_profile.detect_doc_drift THEN
        files \cup {DriftSeed(run_id, method)}
    ELSE IF phase.phase_name = "implementation" THEN
        files \cup {ImplDir(run_id, method), ImplFile(run_id, method)}
    ELSE IF phase.phase_name = "tests" THEN
        files \cup {ImplDir(run_id, method), TestFile(run_id, method)}
    ELSE IF phase.phase_name = "revert_and_cleanup" /\ ImplDir(run_id, method) \in files THEN
        IF case_profile.stress_revert_integrity /\ method = "baseline" THEN
            (files \ ImplChildren(files, run_id, method)) \cup {Residual(run_id, method)}
        ELSE files \ ({ImplDir(run_id, method)} \cup ImplChildren(files, run_id, method))
    ELSE files

\* round(num / den, 3) in thousandths; an exact half goes to the even neighbour
Round3(num, den) ==
    LET q == (num * 1000) \div den
        r == (num * 1000) % den
    IN  IF 2 * r < den THEN q
        ELSE IF 2 * r > den THEN q + 1
        ELSE IF q % 2 = 0 THEN q ELSE q + 1

\* phase_accuracy, in thousandths
phase_accuracy(phase, output_text_, artifact_exists) ==
    LET base == IF artifact_exists THEN 1 ELSE 0
        hit  == IF phase.phase_name \in {"pre_summary", "post_summary"} THEN
                    Contains(output_text_, SummaryText.src_ts_files) /\ Contains(output_text_, SummaryText.docs_md_files)
                ELSE IF phase.phase_name = "implementation" THEN
                    Contains(output_text_, Markers.impl)
                ELSE IF phase.phase_name = "tests" THEN
                    Contains(output_text_, Markers.passed)
                ELSE IF phase.phase_name = "revert_and_cleanup" THEN
                    Contains(output_text_, Markers.reverted) \/ Contains(output_text_, Markers.nothing)
                ELSE StripLen(output_text_) > 20
        points == base + (IF hit THEN 1 ELSE 0)
        checks == 2
    IN  Round3(points, checks)

\* a change-tracking score whose bonus point is given in every phase that mentions revert
phase_change_tracking_score_bonus_anywhere(phase, output_text_) ==
    LET low == Lower(output_text_)
        r1 == IF Contains(low, Markers.synthetic) THEN 1 ELSE 0
        r2 == IF Contains(low, Markers.context) \/ Contains(low, Markers.trace) THEN 1 ELSE 0
        r3 == IF \/ Contains(output_text_, Markers.docs)
                 \/ Contains(output_text_, Markers.documentation)
                 \/ Contains(output_text_, Markers.phase) THEN 1 ELSE 0
        bonus == IF Contains(low, Markers.revert) THEN 1 ELSE 0
    IN  Round3(Min(4, r1 + r2 + r3 + bonus), 4)

\* phase_change_tracking_score, in thousandths
phase_change_tracking_score(phase, output_text_) ==
    LET low == Lower(output_text_)
        r1 == IF Contains(low, Markers.synthetic) THEN 1 ELSE 0
        r2 == IF Contains(low, Markers.context) \/ Contains(low, Markers.trace) THEN 1 ELSE 0
        r3 == IF \/ Contains(output_text_, Markers.docs)
                 \/ Contains(output_text_, Markers.documentation)
                 \/ Contains(output_text_, Markers.phase) THEN 1 ELSE 0
        references == r1 + r2 + r3
        bonus == IF phase.requires_revert /\ Contains(low, Markers.revert) THEN 1 ELSE 0
    IN  Round3(Min(4, references + bonus), 4)

-----------------------------------------------------------------------------
(* The database: tables, plan creation, step update, aggregation.          *)

\* SQL NULL in a numeric column (every stored number is >= 0)
NULL == 0 - 1

\* one in the unit of the aggregate scores (millionths)
ONE == 1000 * 1000

\* the rows of agent_benchmark_steps of one (run, case, method)
StepKeys(steps_, run_id, case_id, method) ==
    {k \in DOMAIN steps_ : k[1] = run_id /\ k[2] = case_id /\ k[3] = method}

\* the empty table
EmptyTable == [k \in {} |-> 0]

\* create_agent_plan, the row inserted into agent_benchmark_runs
PlannedRun(now) == [generated_at |-> now, status |-> "PLANNED"]

\* create_agent_plan, the rows inserted into agent_benchmark_steps
PlannedSteps(run_id, case_id) ==
    [k \in {<<run_id, case_id, m, p>> : m \in MethodSet, p \in 1..PhaseCount} |->
        [phase_name            |-> build_agent_phases[k[4]].phase_name,
         requires_revert       |-> build_agent_phases[k[4]].requires_revert,
         status                |-> "PLANNED",
         input_tokens          |-> NULL,
         output_tokens         |-> NULL,
         total_tokens          |-> NULL,
         accuracy              |-> NULL,
         change_tracking_score |-> NULL]]

\* update_step_result that leaves the status column as it is
update_step_result_keeps_status(steps_, run_id, case_id, method, phase, status, input_tokens, output_tokens, total_tokens, accuracy, change_tracking_score) ==
    LET key == <<run_id, case_id, method, phase.phase_order>>
    IN  IF key \in DOMAIN steps_
        THEN [steps_ EXCEPT ![key] =
                [@ EXCEPT !.input_tokens          = input_tokens,
                          !.output_tokens         = output_tokens,
                          !.total_tokens          = total_tokens,
                          !.accuracy              = accuracy,
                          !.change_tracking_score = change_tracking_score]]
        ELSE steps_

\* update_step_result: an UPDATE of the row with that key, if there is one
update_step_result(steps_, run_id, case_id, method, phase, status, input_tokens, output_tokens, total_tokens, accuracy, change_tracking_score) ==
    LET key == <<run_id, case_id, method, phase.phase_order>>
    IN  IF key \in DOMAIN steps_
        THEN [steps_ EXCEPT ![key] =
                [@ EXCEPT !.status                = status,
                          !.input_tokens          = input_tokens,
                          !.output_tokens         = output_tokens,
                          !.total_tokens          = total_tokens,
                          !.accuracy              = accuracy,
                          !.change_tracking_score = change_tracking_score]]
        ELSE steps_

\* SUM(col) over the rows K of a table, NULLs skipped
RECURSIVE SumCol(_, _, _)
SumCol(table, K, col) ==
    IF K = {} THEN 0
    ELSE LET k == CHOOSE x \in K : TRUE
             v == table[k][col]
         IN  (IF v = NULL THEN 0 ELSE v) + SumCol(table, K \ {k}, col)

\* COALESCE(AVG(col), 0) over the rows K, in millionths for a column in thousandths
AvgCol(table, K, col) ==
    LET N == {k \in K : table[k][col] # NULL}
    IN  IF N = {} THEN 0
        ELSE (SumCol(table, N, col) * 1000) \div Cardinality(N)

\* a retention score that is 0 for two texts without words
retention_score_zero_without_words(pre_summary_, post_summary_) ==
    LET pre_words  == Words(pre_summary_)
        post_words == Words(post_summary_)
        union      == pre_words \cup post_words
    IN  IF union # {} THEN Round3(Cardinality(pre_words \cap post_words), Cardinality(union))
        ELSE 0

\* the retention score of summarize_method_results, in thousandths
retention_score(pre_summary_, post_summary_) ==
    LET pre_words  == Words(pre_summary_)
        post_words == Words(post_summary_)
        union      == pre_words \cup post_words
    IN  IF union # {} THEN Round3(Cardinality(pre_words \cap post_words), Cardinality(union))
        ELSE 1000

\* summarize_method_results reading the noise flag whatever the case profile
summarize_method_results_any_profile(steps_, run_id, case_id, method, pre_summary_, post_summary_, case_profile, state_) ==
    LET K == StepKeys(steps_, run_id, case_id, method)
    IN  [total_tokens           |-> SumCol(steps_, K, "total_tokens"),
         avg_accuracy           |-> AvgCol(steps_, K, "accuracy"),
         avg_change_tracking    |-> AvgCol(steps_, K, "change_tracking_score"),
         completed_phases       |-> Cardinality({k \in K : steps_[k].status = "COMPLETED"}),
         retention_score        |-> 1000 * retention_score(pre_summary_, post_summary_),
         contamination_score    |-> IF Contains(post_summary_, NOISE_TOKEN) THEN 0 ELSE ONE,
         drift_detection_score  |-> IF case_profile.detect_doc_drift
                                    THEN (IF state_.drift_detected THEN ONE ELSE 0)
                                    ELSE ONE,
         revert_integrity_score |-> IF state_.revert_clean THEN ONE ELSE 0]

\* summarize_method_results reading the drift flag whatever the case profile
summarize_method_results_drift_any_profile(steps_, run_id, case_id, method, pre_summary_, post_summary_, case_profile, state_) ==
    LET K == StepKeys(steps_, run_id, case_id, method)
    IN  [total_tokens           |-> SumCol(steps_, K, "total_tokens"),
         avg_accuracy           |-> AvgCol(steps_, K, "accuracy"),
         avg_change_tracking    |-> AvgCol(steps_, K, "change_tracking_score"),
         completed_phases       |-> Cardinality({k \in K : steps_[k].status = "COMPLETED"}),
         retention_score        |-> 1000 * retention_score(pre_summary_, post_summary_),
         contamination_score    |-> IF case_profile.inject_context_noise
                                    THEN (IF state_.noise_leaked THEN 0 ELSE ONE)
                                    ELSE ONE,
         drift_detection_score  |-> IF state_.drift_detected THEN ONE ELSE 0,
         revert_integrity_score |-> IF state_.revert_clean THEN ONE ELSE 0]

\* summarize_method_results, the row written to agent_benchmark_results
summarize_method_results(steps_, run_id, case_id, method, pre_summary_, post_summary_, case_profile, state_) ==
    LET K == StepKeys(steps_, run_id, case_id, method)
    IN  [total_tokens           |-> SumCol(steps_, K, "total_tokens"),
         avg_accuracy           |-> AvgCol(steps_, K, "accuracy"),
         avg_change_tracking    |-> AvgCol(steps_, K, "change_tracking_score"),
         completed_phases       |-> Cardinality({k \in K : steps_[k].status = "COMPLETED"}),
         retention_score        |-> 1000 * retention_score(pre_summary_, post_summary_),
         contamination_score    |-> IF case_profile.inject_context_noise
                                    THEN (IF state_.noise_leaked THEN 0 ELSE ONE)
                                    ELSE ONE,
         drift_detection_score  |-> IF case_profile.detect_doc_drift
                                    THEN (IF state_.drift_detected THEN ONE ELSE 0)
                                    ELSE ONE,
         revert_integrity_score |-> IF state_.revert_clean THEN ONE ELSE 0]

-----------------------------------------------------------------------------
(* The views of init_tables, over a database D = [runs, steps, results].   *)
(* A view is the set of its rows; each row also carries the run_id of the  *)
(* result row it is computed from.                                         *)

\* the CTE "latest": the run with the greatest generated_at, whatever its status
LatestRun(D) ==
    {r \in DOMAIN D.runs :
        \A q \in DOMAIN D.runs : D.runs[q].generated_at <= D.runs[r].generated_at}

\* view latest_agent_mode_comparison
latest_agent_mode_comparison(D) ==
    { [run_id                 |-> k[1],
       method                 |-> k[3],
       total_tokens           |-> D.results[k].total_tokens,
       avg_accuracy           |-> D.results[k].avg_accuracy,
       avg_change_tracking    |-> D.results[k].avg_change_tracking,
       completed_phases       |-> D.results[k].completed_phases,
       retention_score        |-> D.results[k].retention_score,
       contamination_score    |-> D.results[k].contamination_score,
       drift_detection_score  |-> D.results[k].drift_detection_score,
       revert_integrity_score |-> D.results[k].revert_integrity_score]
      : k \in {j \in DOMAIN D.results : j[1] \in LatestRun(D)} }

\* view latest_agent_mode_case_metrics
latest_agent_mode_case_metrics(D) ==
    { [run_id                 |-> k[1],
       case_id                |-> k[2],
       method                 |-> k[3],
       total_tokens           |-> D.results[k].total_tokens,
       avg_accuracy           |-> D.results[k].avg_accuracy,
       avg_change_tracking    |-> D.results[k].avg_change_tracking,
       retention_score        |-> D.results[k].retention_score,
       contamination_score    |-> D.results[k].contamination_score,
       drift_detection_score  |-> D.results[k].drift_detection_score,
       revert_integrity_score |-> D.results[k].revert_integrity_score]
      : k \in {j \in DOMAIN D.results : j[1] \in LatestRun(D)} }

\* COALESCE(v, 0)
Coalesce0(v) == IF v = NULL THEN 0 ELSE v

\* latest_per_method without the filter on the run status
latest_per_method_any_status(D) ==
    LET ranked == {k \in DOMAIN D.results : k[1] \in DOMAIN D.runs}
    IN  {k \in ranked :
            \A j \in ranked : (j[2] = k[2] /\ j[3] = k[3])
                                => D.runs[j[1]].generated_at <= D.runs[k[1]].generated_at}

\* CTEs "ranked" and "latest_per_method" of latest_agent_mode_weighted_scores: of the
\* result rows of EXECUTED runs, the one with the greatest generated_at per (case, method)
latest_per_method(D) ==
    LET ranked == {k \in DOMAIN D.results :
                      k[1] \in DOMAIN D.runs /\ D.runs[k[1]].status = "EXECUTED"}
    IN  {k \in ranked :
            \A j \in ranked : (j[2] = k[2] /\ j[3] = k[3])
                                => D.runs[j[1]].generated_at <= D.runs[k[1]].generated_at}

\* column case_metric of the CTE "normalized", in millionths, as the fraction num / den
case_metric(row, case_id) ==
    IF case_id = "A002" THEN [num |-> Coalesce0(row.contamination_score), den |-> 1]
    ELSE IF case_id = "A003" THEN [num |-> Coalesce0(row.drift_detection_score), den |-> 1]
    ELSE IF case_id = "A004" THEN [num |-> Coalesce0(row.revert_integrity_score), den |-> 1]
    ELSE [num |-> Coalesce0(row.contamination_score) + Coalesce0(row.drift_detection_score)
                  + Coalesce0(row.revert_integrity_score),
          den |-> 3]

\* MAX(total_tokens) in place of MIN(total_tokens)
MaxTokens(D, case_id) ==
    LET T == {D.results[k].total_tokens : k \in {j \in latest_per_method(D) : j[2] = case_id}}
    IN  CHOOSE t \in T : \A u \in T : u <= t

\* MIN(total_tokens) OVER (PARTITION BY case_id)
MinTokens(D, case_id) ==
    LET T == {D.results[k].total_tokens : k \in {j \in latest_per_method(D) : j[2] = case_id}}
    IN  Least(T)

\* token_efficiency relative to the greatest total of the case instead of the least
token_efficiency_of_max(D, k) ==
    [num |-> MaxTokens(D, k[2]), den |-> D.results[k].total_tokens]

\* column token_efficiency of the CTE "normalized" as the fraction num / den;
\* den = 0 stands for NULL (NULLIF(total_tokens, 0))
token_efficiency(D, k) ==
    [num |-> MinTokens(D, k[2]), den |-> D.results[k].total_tokens]

\* weighted_score with the weights of accuracy and change tracking exchanged
weighted_score_swapped(a, c, r, cm, te) ==
    LET base == 25 * Coalesce0(a) + 35 * Coalesce0(c) + 15 * Coalesce0(r)
                + (15 * cm.num) \div cm.den
        e    == IF te.den = 0 THEN 0 ELSE (te.num * 1000) \div te.den
    IN  (base + 10000 * e + 5000) \div 10000

\* ROUND(0.35 a + 0.25 c + 0.15 r + 0.15 m + 0.10 e, 4) in ten-thousandths, where a, c, r
\* are in millionths, m is the fraction cm in millionths and e the fraction te (NULL -> 0).
\* With the sum X in units of 10^-8 the result is floor(X / 10^4 + 1/2); the quotient
\* te.num / te.den is expanded in two steps of three digits to stay within 32 bits.
weighted_score(a, c, r, cm, te) ==
    LET base == 35 * Coalesce0(a) + 25 * Coalesce0(c) + 15 * Coalesce0(r)
                + (15 * cm.num) \div cm.den
        q1   == IF te.den = 0 THEN 0 ELSE (te.num * 1000) \div te.den
        r1   == IF te.den = 0 THEN 0 ELSE (te.num * 1000) % te.den
        q2   == IF te.den = 0 THEN 0 ELSE (r1 * 1000) \div te.den
        r2   == IF te.den = 0 THEN 0 ELSE (r1 * 1000) % te.den
        frac == IF te.den = 0 THEN 0 ELSE (10 * r2) \div te.den
    IN  (base + 10000 * q1 + 10 * q2 + frac + 5000) \div 10000

\* view latest_agent_mode_weighted_scores
latest_agent_mode_weighted_scores(D) ==
    { [run_id              |-> k[1],
       case_id             |-> k[2],
       method              |-> k[3],
       total_tokens        |-> D.results[k].total_tokens,
       avg_accuracy        |-> D.results[k].avg_accuracy,
       avg_change_tracking |-> D.results[k].avg_change_tracking,
       retention_score     |-> D.results[k].retention_score,
       case_metric         |-> case_metric(D.results[k], k[2]),
       token_efficiency    |-> token_efficiency(D, k),
       weighted_score      |-> weighted_score(D.results[k].avg_accuracy,
                                              D.results[k].avg_change_tracking,
                                              D.results[k].retention_score,
                                              case_metric(D.results[k], k[2]),
                                              token_efficiency(D, k)),
       generated_at        |-> D.runs[k[1]].generated_at]
      : k \in latest_per_method(D) }

\* the order of the method names in ORDER BY method
MethodRank == [baseline |-> 1, graph |-> 2]

\* ORDER BY weighted_score DESC, method: row x comes before row y
RankedBefore(x, y) ==
    \/ x.weighted_score > y.weighted_score
    \/ x.weighted_score = y.weighted_score /\ MethodRank[x.method] < MethodRank[y.method]

\* |a - b|
Abs(a, b) == IF a >= b THEN a - b ELSE b - a

\* the tie margin of latest_agent_mode_winner, 0.005, in ten-thousandths
TieEpsilon == 50

\* winner_rows without the tie margin: the top-ranked method always wins
winner_rows_no_tie(S) ==
    { [case_id       |-> x.case_id,
       winner_method |-> x.method,
       winner_score  |-> x.weighted_score,
       second_score  |-> x.weighted_score,
       score_delta   |-> 0]
      : x \in {y \in S : \A z \in S : (z.case_id = y.case_id /\ z # y) => RankedBefore(y, z)} }

\* view latest_agent_mode_winner over the rows S of latest_agent_mode_weighted_scores
winner_rows(S) ==
    { LET others == {y \in S : y.case_id = x.case_id /\ y # x}
          next   == {y \in others : \A z \in others : z = y \/ RankedBefore(y, z)}
          next_score == IF next = {} THEN NULL ELSE (CHOOSE y \in next : TRUE).weighted_score
      IN  [case_id       |-> x.case_id,
           winner_method |-> IF next_score # NULL /\ Abs(x.weighted_score, next_score) < TieEpsilon
                             THEN "tie" ELSE x.method,
           winner_score  |-> x.weighted_score,
           second_score  |-> IF next_score = NULL THEN x.weighted_score ELSE next_score,
           score_delta   |-> x.weighted_score
                             - (IF next_score = NULL THEN x.weighted_score ELSE next_score)]
      : x \in {y \in S : \A z \in S : (z.case_id = y.case_id /\ z # y) => RankedBefore(y, z)} }

\* view latest_agent_mode_winner
latest_agent_mode_winner(D) == winner_rows(latest_agent_mode_weighted_scores(D))

-----------------------------------------------------------------------------
(* The tool benchmark (scripts/benchmark_graph_tools): main runs, for each *)
(* case of build_cases, the tool through the query endpoint and the        *)
(* baseline shell command, and collects one row per case.                  *)

\* build_cases: 74 cases T001..T074; those without a baseline command
ToolCaseCount == 74
\* the tools of the cases in the order of the add(...) calls: four cases each, but two
\* for test_run (T037, T038)
ToolNames ==
    <<"graph_query", "code_explain", "arch_validate", "test_select", "graph_rebuild",
      "find_pattern", "arch_suggest", "test_categorize", "impact_analyze", "test_run",
      "progress_query", "task_update", "feature_status", "blocking_issues",
      "semantic_search", "find_similar_code", "code_clusters", "semantic_diff",
      "suggest_tests">>
CaseTool(i) == IF i <= 36 THEN ToolNames[((i - 1) \div 4) + 1] ELSE IF i <= 38 THEN ToolNames[10] ELSE ToolNames[((i - 39) \div 4) + 11]
build_cases ==
    [i \in 1..ToolCaseCount |-> [id |-> i, tool |-> CaseTool(i), baseline_cmd |-> i \notin 39..54]]

\* what subprocess.run of run_mcp_case can end with: subprocess.TimeoutExpired after 240 s,
\* or an exit code with a stdout whose text holds 'Error:' or not and scores some accuracy
McpOutcomes ==
    [timeout : {TRUE}, returncode : {0}, error_text : {FALSE}, accuracy : {0}]
    \cup [timeout : {FALSE}, returncode : {0, 7}, error_text : BOOLEAN,
          accuracy : {0, 500, 1000}]

\* what subprocess.run of run_baseline_case can end with
BaselineOutcomes ==
    [timeout : {TRUE}, returncode : {0}, accuracy : {0}]
    \cup [timeout : {FALSE}, returncode : {0, 1}, accuracy : {0, 500, 1000}]

\* no result of a call yet
NoResult == [transport |-> "", exit_code |-> NULL, success |-> FALSE, accuracy |-> NULL]

\* the dictionary run_mcp_case returns when subprocess.run returns
run_mcp_case(outcome) ==
    [transport |-> "mcp",
     exit_code |-> outcome.returncode,
     success   |-> (outcome.returncode = 0 /\ ~outcome.error_text),
     accuracy  |-> outcome.accuracy]

\* the dictionary run_baseline_case returns: without a baseline command a fixed text is
\* scored and no process is started
run_baseline_case(case, outcome) ==
    IF ~case.baseline_cmd
    THEN [transport |-> "baseline", exit_code |-> NULL, success |-> FALSE,
          accuracy |-> outcome.accuracy]
    ELSE [transport |-> "baseline",
          exit_code |-> outcome.returncode,
          success   |-> (outcome.returncode = 0),
          accuracy  |-> outcome.accuracy]

\* benchmark_graph_tools.main is not running
ToolsNotRun == [pc |-> "", case |-> 0, mcp |-> NoResult, baseline |-> NoResult,
                rows |-> <<>>, raised |-> ""]

\* main of the tool benchmark starts with the first case
ToolsStart == [ToolsNotRun EXCEPT !.pc = "mcp", !.case = 1]

\* the state of the agent benchmark, which the tool benchmark does not touch
agentVars == <<repo, clock, runs, steps, results, committed, fs, pc, cur, pre_summary,
               post_summary, output_text, previous_phase, previous_hash, state, invocation>>

\* mcp = run_mcp_case(case): subprocess.TimeoutExpired is not caught, it ends main
RunMcpCase ==
    /\ tools.pc = "mcp"
    /\ \E outcome \in McpOutcomes :
          tools' = IF outcome.timeout
                   THEN [tools EXCEPT !.pc = "raised", !.raised = "TimeoutExpired"]
                   ELSE [tools EXCEPT !.pc = "baseline", !.mcp = run_mcp_case(outcome)]
    /\ UNCHANGED <<agentVars, call>>

\* baseline = run_baseline_case(case): subprocess.TimeoutExpired is not caught either
RunBaselineCase ==
    /\ tools.pc = "baseline"
    /\ \E outcome \in BaselineOutcomes :
          tools' = IF build_cases[tools.case].baseline_cmd /\ outcome.timeout
                   THEN [tools EXCEPT !.pc = "raised", !.raised = "TimeoutExpired"]
                   ELSE [tools EXCEPT !.pc = "notes",
                                      !.baseline = run_baseline_case(build_cases[tools.case],
                                                                     outcome)]
    /\ UNCHANGED <<agentVars, call>>

\* the notes of the case: the third condition reads row["mcp"], and main has no variable
\* row: NameError ends main before the row of the case is appended
BuildNotes ==
    /\ tools.pc = "notes"
    /\ tools' = [tools EXCEPT !.pc = "raised", !.raised = "NameError"]
    /\ UNCHANGED <<agentVars, call>>

InitTools ==
    /\ repo = CHOOSE rp \in Repos : rp.readme = SampleText.readme_plain
    /\ clock = 0
    /\ runs = EmptyTable
    /\ steps = EmptyTable
    /\ results = EmptyTable
    /\ committed = [runs |-> EmptyTable, steps |-> EmptyTable, results |-> EmptyTable]
    /\ fs = {}
    /\ pc = "idle"
    /\ cur = [run_id |-> 0, case_id |-> "", method |-> 0, phase |-> 0,
              graph_text |-> PyStr(<<>>)]
    /\ pre_summary = <<>>
    /\ post_summary = <<>>
    /\ output_text = <<>>
    /\ previous_phase = ""
    /\ previous_hash = <<>>
    /\ state = [noise_leaked |-> FALSE, drift_detected |-> FALSE, revert_clean |-> TRUE]
    /\ invocation = [mode |-> "", case_id |-> "", raised |-> [type |-> "", message |-> <<>>]]
    /\ tools = ToolsStart
    /\ call = NoCall

NextTools == RunMcpCase \/ RunBaselineCase \/ BuildNotes

SpecTools == InitTools /\ [][NextTools]_vars

-----------------------------------------------------------------------------
(* main: plan creation and execution.                                      *)

\* the tables of the open connection
Tables == [runs |-> runs, steps |-> steps, results |-> results]

\* the locals of execute_agent_plan at the start of a method
InitialState == [noise_leaked |-> FALSE, drift_detected |-> FALSE, revert_clean |-> TRUE]

\* no execute_agent_plan is running
Idle == [run_id |-> 0, case_id |-> "", method |-> 0, phase |-> 0, graph_text |-> PyStr(<<>>)]

\* the exceptions main ends with
NoError == [type |-> "", message |-> <<>>]
ValueError(message) == [type |-> "ValueError", message |-> message]
TypeError == [type |-> "TypeError", message |-> <<>>]
OSError == [type |-> "OSError", message |-> <<>>]

\* sorted(profiles.keys()) of get_case_profile
ProfileKeys == <<"A001", "A002", "A003", "A004">>

\* sep.join(texts)
RECURSIVE Join(_, _)
Join(sep, texts) ==
    IF texts = <<>> THEN <<>>
    ELSE IF Len(texts) = 1 THEN texts[1]
    ELSE texts[1] \o sep \o Join(sep, Tail(texts))

\* a ValueError of get_case_profile that names the case id only
unsupported_case_error_without_list(case_id) ==
    ValueError(ErrorText.unsupported \o CaseIdText[case_id])

\* the ValueError of get_case_profile for a case id that is not in the registry
unsupported_case_error(case_id) ==
    ValueError(ErrorText.unsupported \o CaseIdText[case_id] \o ErrorText.supported
               \o Join(ErrorText.separator,
                       [i \in 1..Len(ProfileKeys) |-> CaseIdText[ProfileKeys[i]]]))

\* no invocation of main yet
NoInvocation == [mode |-> "", case_id |-> "", raised |-> NoError]

\* locals of a method that keep the rolling fingerprint of the method before
ResetLocals_keeps_rolling_state ==
    /\ pre_summary' = <<>>
    /\ post_summary' = <<>>
    /\ output_text' = <<>>
    /\ UNCHANGED <<previous_phase, previous_hash>>
    /\ state' = InitialState

ResetLocals ==
    /\ pre_summary' = <<>>
    /\ post_summary' = <<>>
    /\ output_text' = <<>>
    /\ previous_phase' = ""
    /\ previous_hash' = <<>>
    /\ state' = InitialState

Init ==
    /\ repo \in Repos
    /\ clock = 0
    /\ runs = EmptyTable
    /\ steps = EmptyTable
    /\ results = EmptyTable
    /\ committed = [runs |-> EmptyTable, steps |-> EmptyTable, results |-> EmptyTable]
    /\ fs = {}
    /\ pc = "idle"
    /\ cur = Idle
    /\ pre_summary = <<>>
    /\ post_summary = <<>>
    /\ output_text = <<>>
    /\ previous_phase = ""
    /\ previous_hash = <<>>
    /\ state = InitialState
    /\ invocation = NoInvocation
    /\ tools = ToolsNotRun
    /\ call = NoCall

\* create_agent_plan: the run row and the 16 step rows, committed
create_agent_plan(case_id) ==
    /\ clock' = clock + 1
    /\ runs' = runs @@ [r \in {clock'} |-> PlannedRun(clock')]
    /\ steps' = steps @@ PlannedSteps(clock', case_id)
    /\ UNCHANGED results
    /\ committed' = [runs |-> runs', steps |-> steps', results |-> results]

\* main --plan-only (the default mode)
MainPlanOnly ==
    /\ pc = "idle"
    /\ clock < MaxRuns
    /\ \E case_id \in CaseIds :
          /\ create_agent_plan(case_id)
          /\ invocation' = [mode |-> "plan-only", case_id |-> case_id, raised |-> NoError]
    /\ UNCHANGED <<repo, fs, pc, cur, pre_summary, post_summary, output_text,
                   previous_phase, previous_hash, state, tools, call>>

\* main --plan-only --execute: ValueError before the case id is read and before the
\* database is opened
MainBothModes ==
    /\ pc = "idle"
    /\ invocation' = [mode |-> "both", case_id |-> "",
                      raised |-> ValueError(ErrorText.either_mode)]
    /\ UNCHANGED <<repo, clock, runs, steps, results, committed, fs, pc, cur, pre_summary,
                   post_summary, output_text, previous_phase, previous_hash, state, tools, call>>

\* main --execute up to the first phase: create_agent_plan, then execute_agent_plan looks
\* the case profile up; an unknown case id raises ValueError and ends the process.
\* The answer of the query endpoint during this run is chosen here.
MainExecute ==
    /\ pc = "idle"
    /\ clock < MaxRuns
    /\ \E case_id \in CaseIds, response \in GraphResponses :
          /\ create_agent_plan(case_id)
          /\ IF case_id \in SupportedCases
             THEN /\ pc' = "phase"
                  /\ cur' = [run_id |-> clock', case_id |-> case_id, method |-> 1, phase |-> 1,
                             graph_text |-> run_mcp_graph_query(response)]
                  /\ invocation' = [mode |-> "execute", case_id |-> case_id,
                                    raised |-> NoError]
             ELSE /\ pc' = "idle"
                  /\ cur' = Idle
                  /\ invocation' = [mode |-> "execute", case_id |-> case_id,
                                    raised |-> unsupported_case_error(case_id)]
    /\ UNCHANGED <<repo, fs, pre_summary, post_summary, output_text, previous_phase,
                   previous_hash, state, tools, call>>

\* the phase to run is a summary phase whose summarize_project_from_codebase raises
SummaryWillRaise ==
    /\ build_agent_phases[cur.phase].phase_name \in {"pre_summary", "post_summary"}
    /\ graph_note_raises(Methods[cur.method] = "graph", cur.graph_text)

\* the exception of summarize_project_from_codebase leaves execute_agent_plan and main: the
\* process ends, and the connection is closed with its transaction not committed
SummaryRaises ==
    /\ pc = "phase"
    /\ SummaryWillRaise
    /\ runs' = committed.runs
    /\ steps' = committed.steps
    /\ results' = committed.results
    /\ pc' = "idle"
    /\ cur' = Idle
    /\ ResetLocals
    /\ invocation' = [invocation EXCEPT !.raised = TypeError]
    /\ UNCHANGED <<repo, clock, committed, fs, tools, call>>

\* one iteration of the phase loop of execute_agent_plan
ExecPhase ==
    /\ pc = "phase"
    /\ ~SummaryWillRaise
    /\ LET run_id       == cur.run_id
           case_id      == cur.case_id
           method       == Methods[cur.method]
           phase        == build_agent_phases[cur.phase]
           case_profile == get_case_profile(case_id)
           artifact     == Artifact(run_id, method, phase)
       IN  \E context_text \in {seed_phase_context(phase, method, previous_phase,
                                                     previous_hash, case_id)},
              summary \in {IF phase.phase_name \in {"pre_summary", "post_summary"}
                           THEN summarize_project_from_codebase(repo, method = "graph",
                                                                cur.graph_text)
                           ELSE <<>>} :
           \E out \in {IF phase.phase_name = "pre_summary" THEN summary
                                ELSE phase_output(run_id, method, phase, pre_summary,
                                                  case_profile, fs, summary)},
              files \in {IF phase.phase_name = "pre_summary" THEN fs
                          ELSE phase_files(run_id, method, phase, case_profile, fs)} :
           \E input_tokens \in {estimate_tokens(context_text)},
              output_tokens \in {estimate_tokens(out)} :
              /\ pre_summary' = IF phase.phase_name = "pre_summary" THEN summary
                                 ELSE pre_summary
              /\ post_summary' = IF phase.phase_name = "post_summary" THEN out
                                  ELSE post_summary
              /\ state' =
                    [noise_leaked   |-> IF case_profile.inject_context_noise
                                           /\ phase.phase_name = "post_summary"
                                        THEN Contains(out, NOISE_TOKEN)
                                        ELSE state.noise_leaked,
                     drift_detected |-> IF case_profile.detect_doc_drift
                                           /\ phase.phase_name = "docs_step_update"
                                        THEN Contains(out, DRIFT_DETECTED)
                                        ELSE state.drift_detected,
                     revert_clean   |-> IF phase.phase_name = "revert_and_cleanup"
                                        THEN \/ ImplDir(run_id, method) \notin files
                                             \/ ImplChildren(files, run_id, method) = {}
                                        ELSE state.revert_clean]
              /\ fs' = files \cup {artifact}
              /\ output_text' = out
              /\ previous_phase' = phase.phase_name
              /\ previous_hash' = hash_text(out)
              /\ steps' = update_step_result(steps, run_id, case_id, method, phase,
                                              "COMPLETED", input_tokens, output_tokens,
                                              input_tokens + output_tokens,
                                              phase_accuracy(phase, out,
                                                             artifact \in fs'),
                                              phase_change_tracking_score(phase, out))
              /\ IF cur.phase < PhaseCount
                 THEN pc' = "phase" /\ cur' = [cur EXCEPT !.phase = @ + 1]
                 ELSE pc' = "summarize" /\ cur' = cur
    /\ UNCHANGED <<repo, clock, runs, results, committed, invocation, tools, call>>

\* a Summarize that commits the transaction after each method
Summarize_commits_per_method ==
    /\ pc = "summarize"
    /\ LET method == Methods[cur.method]
           row    == summarize_method_results(steps, cur.run_id, cur.case_id, method,
                                              pre_summary, post_summary,
                                              get_case_profile(cur.case_id), state)
       IN  results' = [k \in DOMAIN results \cup {<<cur.run_id, cur.case_id, method>>} |->
                          IF k = <<cur.run_id, cur.case_id, method>> THEN row ELSE results[k]]
    /\ IF cur.method < Len(Methods)
       THEN pc' = "phase" /\ cur' = [cur EXCEPT !.method = @ + 1, !.phase = 1]
       ELSE pc' = "finish" /\ cur' = cur
    /\ ResetLocals
    /\ committed' = [runs |-> runs, steps |-> steps, results |-> results']
    /\ UNCHANGED <<repo, clock, runs, steps, fs, invocation, tools, call>>

\* summarize_method_results for the method whose phases are done (INSERT OR REPLACE),
\* then the next method starts with fresh locals
Summarize ==
    /\ pc = "summarize"
    /\ LET method == Methods[cur.method]
           row    == summarize_method_results(steps, cur.run_id, cur.case_id, method,
                                              pre_summary, post_summary,
                                              get_case_profile(cur.case_id), state)
       IN  results' = [k \in DOMAIN results \cup {<<cur.run_id, cur.case_id, method>>} |->
                          IF k = <<cur.run_id, cur.case_id, method>> THEN row ELSE results[k]]
    /\ IF cur.method < Len(Methods)
       THEN pc' = "phase" /\ cur' = [cur EXCEPT !.method = @ + 1, !.phase = 1]
       ELSE pc' = "finish" /\ cur' = cur
    /\ ResetLocals
    /\ UNCHANGED <<repo, clock, runs, steps, committed, fs, invocation, tools, call>>

\* the end of execute_agent_plan: the run becomes EXECUTED and the transaction commits
Finish ==
    /\ pc = "finish"
    /\ runs' = [runs EXCEPT ![cur.run_id].status = "EXECUTED"]
    /\ committed' = [runs |-> runs', steps |-> steps, results |-> results]
    /\ pc' = "idle"
    /\ cur' = Idle
    /\ UNCHANGED <<repo, clock, steps, results, fs, pre_summary, post_summary,
                   output_text, previous_phase, previous_hash, state, invocation, tools, call>>

Next ==
    \/ MainPlanOnly
    \/ MainBothModes
    \/ MainExecute
    \/ ExecPhase
    \/ SummaryRaises
    \/ Summarize
    \/ Finish

Spec == Init /\ [][Next]_vars

-----------------------------------------------------------------------------
(* Execution with a failing artifact store: write_artifact can raise       *)
(* OSError in any phase of either method.                                  *)

\* write_artifact raises before the artifact file is created (mkdir or open fails): the
\* files phase_output wrote stay, the exception leaves execute_agent_plan and main, and
\* the connection is closed with its transaction not committed
WriteArtifactRaises ==
    /\ pc = "phase"
    /\ ~SummaryWillRaise
    /\ LET phase == build_agent_phases[cur.phase]
       IN  fs' = IF phase.phase_name = "pre_summary" THEN fs
                 ELSE phase_files(cur.run_id, Methods[cur.method], phase,
                                  get_case_profile(cur.case_id), fs)
    /\ runs' = committed.runs
    /\ steps' = committed.steps
    /\ results' = committed.results
    /\ pc' = "idle"
    /\ cur' = Idle
    /\ ResetLocals
    /\ invocation' = [invocation EXCEPT !.raised = OSError]
    /\ UNCHANGED <<repo, clock, committed, tools, call>>

\* one repository is enough here: what it holds changes the texts, not the transactions
InitAbort == Init /\ repo.readme = SampleText.readme_plain

NextAbort == Next \/ WriteArtifactRaises

SpecAbort == InitAbort /\ [][NextAbort]_vars

-----------------------------------------------------------------------------
(* The retention score as a function of the two summaries: the state of    *)
(* execute_agent_plan after the 8 phases of method graph, with the pre- and *)
(* post-summary drawn from RetentionTexts.                                  *)

\* every text of at most MaxTextLen characters over two letters in both cases and the
\* blank, and some longer texts: three and four words, repeated words, mixed case,
\* runs of whitespace, a project-state digest
RetentionTexts ==
    UNION {[1..n -> {"a", "A", "b", " "}] : n \in 0..MaxTextLen}
    \cup { <<"a", " ", "b", " ", "c">>,
           <<"A", " ", "B">>,
           <<"b", " ", "c", " ", "d">>,
           <<" ", "a", "\n", "\n", "b", " ", "a", " ">>,
           <<"a", " ", "b", " ", "c", " ", "d">>,
           <<"c", " ", "d", " ", "e", " ", "f", " ", "g">>,
           summarize_project_from_codebase(CHOOSE rp \in Repos : rp.readme = SampleText.readme_plain,
                                           TRUE, PyStr(<<>>)),
           summarize_project_from_codebase(CHOOSE rp \in Repos : rp.readme = SampleText.readme_plain,
                                           TRUE, PyStr(SampleText.graph_text)) }

InitRetention ==
    /\ repo = CHOOSE rp \in Repos : rp.readme = SampleText.readme_plain
    /\ clock = 1
    /\ runs = [r \in {1} |-> PlannedRun(1)]
    /\ steps = [k \in DOMAIN PlannedSteps(1, "A001") |->
                  IF k[3] = "graph"
                  THEN [PlannedSteps(1, "A001")[k] EXCEPT !.status = "COMPLETED",
                                                          !.input_tokens = 10,
                                                          !.output_tokens = 10,
                                                          !.total_tokens = 20,
                                                          !.accuracy = 1000,
                                                          !.change_tracking_score = 500]
                  ELSE PlannedSteps(1, "A001")[k]]
    /\ results = EmptyTable
    /\ committed = [runs |-> runs, steps |-> PlannedSteps(1, "A001"), results |-> EmptyTable]
    /\ fs = {Artifact(1, "graph", build_agent_phases[p]) : p \in 1..PhaseCount}
    /\ pc = "summarize"
    /\ cur = [run_id |-> 1, case_id |-> "A001", method |-> 1, phase |-> PhaseCount,
              graph_text |-> PyStr(<<>>)]
    /\ pre_summary \in RetentionTexts
    /\ post_summary \in RetentionTexts
    /\ output_text = post_summary
    /\ previous_phase = "post_summary"
    /\ previous_hash = hash_text(post_summary)
    /\ state = InitialState
    /\ invocation = [mode |-> "execute", case_id |-> "A001", raised |-> NoError]
    /\ tools = ToolsNotRun
    /\ call = NoCall

NextRetention == Summarize

SpecRetention == InitRetention /\ [][NextRetention]_vars

-----------------------------------------------------------------------------
(* Functions of the program applied on their own to drawn arguments.       *)

\* the state of both benchmarks, which a function called on its own does not touch
programVars == <<agentVars, tools>>

\* a state in which no benchmark runs and the function call `c` is about to be made
InitCall(c) ==
    /\ repo = CHOOSE rp \in Repos : rp.readme = SampleText.readme_plain
    /\ clock = 0
    /\ runs = EmptyTable
    /\ steps = EmptyTable
    /\ results = EmptyTable
    /\ committed = [runs |-> EmptyTable, steps |-> EmptyTable, results |-> EmptyTable]
    /\ fs = {}
    /\ pc = "idle"
    /\ cur = Idle
    /\ pre_summary = <<>>
    /\ post_summary = <<>>
    /\ output_text = <<>>
    /\ previous_phase = ""
    /\ previous_hash = <<>>
    /\ state = InitialState
    /\ invocation = NoInvocation
    /\ tools = ToolsNotRun
    /\ call = c

\* the texts compress_text is applied to: every text of at most MaxPathLen characters
\* over the slash, a letter and the dot, and texts that hold the workspace and the home
\* prefix, one of them inside another
CompressTexts ==
    UNION {[1..n -> {"/", "a", "."}] : n \in 0..MaxPathLen}
    \cup { CanonText.workspace \o <<"s", "r", "c", "/", "a", ".", "t", "s">>,
           <<"/", "w", "o", "r", "k">> \o CanonText.workspace
               \o <<"s", "p", "a", "c", "e", "/", "x">>,
           CanonText.home \o <<"u", "/", "p", "/", "s", "r", "c", "/", "a">>,
           CanonText.home \o <<"u", "/", "p", "/", "/", "h", "o", "m", "e", "/", "v", "/",
                                "q", "/", "a">>,
           <<"a", "/", "/", "/", "b", " ", "c", "d", "e", "f", "g", "h">> }

\* the calls of compress_text: a text and one of the limits the program passes, or a
\* limit of a few characters
CompressCalls ==
    [fn : {"compress_text"}, text : CompressTexts,
     max_chars : {5, MAX_CONTEXT_CHARS, MAX_OUTPUT_CHARS}, applied : {0}, previous : {<<>>}]

\* compress_text applied to the text of the call, up to twice in a row
ApplyCompressText ==
    /\ call.fn = "compress_text"
    /\ call.applied < 2
    /\ call' = [call EXCEPT !.previous = call.text,
                            !.text = compress_text(call.text, call.max_chars),
                            !.applied = @ + 1]
    /\ UNCHANGED programVars

InitCompress == \E c \in CompressCalls : InitCall(c)

NextCompress == ApplyCompressText

SpecCompress == InitCompress /\ [][NextCompress]_vars

\* str.upper on the letters a..z
Upper(t) == [i \in 1..Len(t) |-> IF \E j \in 1..26 : LowerSeq[j] = t[i] THEN UpperSeq[CHOOSE j \in 1..26 : LowerSeq[j] = t[i]] ELSE t[i]]

\* a word left out, written as in the code, or written in capitals
WordChoices(word) == {<<>>, word, Upper(word)}

\* outputs given to phase_change_tracking_score: per reference category and for the
\* revert bonus one choice of word, the four joined by blanks
ScoreParts ==
    { <<a, b, c, d>> : a \in WordChoices(Markers.synthetic),
                       b \in WordChoices(Markers.context) \cup WordChoices(Markers.trace),
                       c \in WordChoices(Markers.docs) \cup WordChoices(Markers.documentation)
                              \cup WordChoices(Markers.phase),
                       d \in WordChoices(Markers.revert) }

ScoreCalls ==
    { [fn |-> "phase_change_tracking_score", phase |-> build_agent_phases[i], parts |-> p,
       output_text |-> Join(<<" ">>, p), applied |-> 0, score |-> NULL]
      : i \in 1..PhaseCount, p \in ScoreParts }

ApplyChangeTracking ==
    /\ call.fn = "phase_change_tracking_score"
    /\ call.applied = 0
    /\ call' = [call EXCEPT !.score = phase_change_tracking_score(call.phase, call.output_text),
                            !.applied = 1]
    /\ UNCHANGED programVars

\* a classify_winner that gives no point for success
classify_winner_without_success(mcp, baseline) ==
    IF baseline.latency_ms = NULL THEN "mcp_only"
    ELSE LET mcp_score      == (IF mcp.accuracy > baseline.accuracy THEN 1 ELSE 0)
                               + (IF mcp.latency_ms < baseline.latency_ms THEN 1 ELSE 0)
                               + (IF mcp.total_tokens_est < baseline.total_tokens_est THEN 1 ELSE 0)
             baseline_score == (IF baseline.accuracy > mcp.accuracy THEN 1 ELSE 0)
                               + (IF baseline.latency_ms < mcp.latency_ms THEN 1 ELSE 0)
                               + (IF baseline.total_tokens_est < mcp.total_tokens_est THEN 1 ELSE 0)
         IN  IF mcp_score = baseline_score THEN "tie"
             ELSE IF mcp_score > baseline_score THEN "mcp" ELSE "baseline"

\* classify_winner of benchmark_graph_tools; latency_ms None is NULL, accuracy is in
\* thousandths
classify_winner(mcp, baseline) ==
    IF baseline.latency_ms = NULL THEN "mcp_only"
    ELSE LET mcp_score      == (IF mcp.accuracy > baseline.accuracy THEN 1 ELSE 0)
                               + (IF mcp.latency_ms < baseline.latency_ms THEN 1 ELSE 0)
                               + (IF mcp.total_tokens_est < baseline.total_tokens_est THEN 1 ELSE 0)
                               + (IF mcp.success /\ ~baseline.success THEN 1 ELSE 0)
             baseline_score == (IF baseline.accuracy > mcp.accuracy THEN 1 ELSE 0)
                               + (IF baseline.latency_ms < mcp.latency_ms THEN 1 ELSE 0)
                               + (IF baseline.total_tokens_est < mcp.total_tokens_est THEN 1 ELSE 0)
                               + (IF ~mcp.success /\ baseline.success THEN 1 ELSE 0)
         IN  IF mcp_score = baseline_score THEN "tie"
             ELSE IF mcp_score > baseline_score THEN "mcp" ELSE "baseline"

\* results of run_mcp_case and of run_baseline_case with a command: a latency, an
\* accuracy, a token estimate and the success flag
TimedResults == [latency_ms : {10, 20}, accuracy : {500, 1000}, total_tokens_est : {5, 9}, success : BOOLEAN]

\* results of run_baseline_case for a case without baseline command
UntimedResults == [latency_ms : {NULL}, accuracy : {0, 500}, total_tokens_est : {5, 9}, success : {FALSE}]

WinnerCalls ==
    [fn : {"classify_winner"}, mcp : TimedResults, baseline : TimedResults \cup UntimedResults,
     applied : {0}, winner : {""}, swapped : {""}]

\* winner = classify_winner(mcp, baseline), and the same with the arguments exchanged
\* when both have a latency
ApplyClassifyWinner ==
    /\ call.fn = "classify_winner"
    /\ call.applied = 0
    /\ call' = [call EXCEPT !.winner = classify_winner(call.mcp, call.baseline),
                            !.swapped = IF call.baseline.latency_ms # NULL
                                        THEN classify_winner(call.baseline, call.mcp) ELSE "",
                            !.applied = 1]
    /\ UNCHANGED programVars

\* the regression gate (scripts/check_benchmark_regression): the runs of a database are
\* a sequence of rows [generated_at, summary]; a summary maps some of the metric names to
\* the number its value text denotes, in tenths
MaxGateRuns == 3

GateMetrics == {"mcpLowerTokens", "mcpFaster", "mcpHigherAccuracy"}

\* to_int: int(float(summary.get(key, "0"))), the value cut to its integer part
to_int(summary, key) == IF key \in DOMAIN summary THEN summary[key] \div 10 ELSE 0

\* a delta that counts as a regression under a limit that also forbids a decrease equal to it
Regressed_at_limit(delta, limit) == delta <= 0 - limit

\* the test 'deltas[metric] < -args.max_..._regression'
Regressed(delta, limit) == delta < 0 - limit

\* SELECT run_id FROM benchmark_runs ORDER BY generated_at DESC LIMIT 2
latest_two_runs(db) ==
    LET ids   == DOMAIN db
        first == {i \in ids : \A j \in ids : db[j].generated_at <= db[i].generated_at}
        rest  == ids \ first
        second == {i \in rest : \A j \in rest : db[j].generated_at <= db[i].generated_at}
    IN  IF ids = {} THEN <<>>
        ELSE IF rest = {} THEN <<CHOOSE i \in first : TRUE>>
        ELSE <<CHOOSE i \in first : TRUE, CHOOSE i \in second : TRUE>>

\* main of the regression gate: the exit code, what it printed last, and the metrics it
\* reports as regressed
regression_gate(args, db_exists, db) ==
    IF ~db_exists THEN [exit_code |-> 1, printed |-> "Database not found", failures |-> {}]
    ELSE LET run_ids == latest_two_runs(db)
         IN  IF Len(run_ids) < 2 THEN [exit_code |-> 0, printed |-> "skipping", failures |-> {}]
             ELSE LET latest_summary   == db[run_ids[1]].summary
                      previous_summary == db[run_ids[2]].summary
                      deltas   == [k \in GateMetrics |-> to_int(latest_summary, k) - to_int(previous_summary, k)]
                      failures == {k \in GateMetrics : Regressed(deltas[k], args[k])}
                  IN  IF failures # {} THEN [exit_code |-> 1, printed |-> "FAILED", failures |-> failures]
                      ELSE [exit_code |-> 0, printed |-> "PASSED", failures |-> {}]

\* summaries of a run: all metrics 6; each metric lower by exactly the default limit;
\* mcpLowerTokens lower by one more; mcpFaster 3.9; mcpHigherAccuracy missing; no metric
GateSummaries ==
    { [mcpLowerTokens |-> 60, mcpFaster |-> 60, mcpHigherAccuracy |-> 60],
      [mcpLowerTokens |-> 10, mcpFaster |-> 40, mcpHigherAccuracy |-> 50],
      [mcpLowerTokens |-> 0, mcpFaster |-> 40, mcpHigherAccuracy |-> 50],
      [mcpLowerTokens |-> 10, mcpFaster |-> 39, mcpHigherAccuracy |-> 50],
      [mcpLowerTokens |-> 10, mcpFaster |-> 40],
      [totalScenarios |-> 740] }

\* the databases: up to MaxGateRuns runs with distinct generated_at
GateDatabases ==
    UNION { {db \in [1..n -> [generated_at : 1..n, summary : GateSummaries]] :
                \A i, j \in 1..n : i # j => db[i].generated_at # db[j].generated_at}
            : n \in 0..MaxGateRuns }

\* the calls: the default limits of the arguments or limits of 0, a database or none
GateCalls ==
    [fn : {"regression_gate"},
     args : {[mcpLowerTokens |-> 5, mcpFaster |-> 2, mcpHigherAccuracy |-> 1],
             [mcpLowerTokens |-> 0, mcpFaster |-> 0, mcpHigherAccuracy |-> 0]},
     db_exists : {TRUE}, db : GateDatabases, applied : {0}, result : {<<>>}]
    \cup [fn : {"regression_gate"}, args : {[mcpLowerTokens |-> 5, mcpFaster |-> 2, mcpHigherAccuracy |-> 1]},
          db_exists : {FALSE}, db : {<<>>}, applied : {0}, result : {<<>>}]

ApplyRegressionGate ==
    /\ call.fn = "regression_gate"
    /\ call.applied = 0
    /\ call' = [call EXCEPT !.result = regression_gate(call.args, call.db_exists, call.db),
                            !.applied = 1]
    /\ UNCHANGED programVars

InitFunctions == \E c \in ScoreCalls \cup WinnerCalls \cup GateCalls : InitCall(c)

NextFunctions == ApplyChangeTracking \/ ApplyClassifyWinner \/ ApplyRegressionGate

SpecFunctions == InitFunctions /\ [][NextFunctions]_vars

-----------------------------------------------------------------------------
(* The two methods of one run with their phases interleaved: each method   *)
(* keeps the locals execute_agent_plan gives it and its own position in    *)
(* the catalog; the file system is the one both write to.                  *)

\* the locals of a method before its first phase
FreshLocals == [pre_summary |-> <<>>, outputs |-> <<>>, state |-> InitialState]

\* one iteration of the phase loop of execute_agent_plan for phase k of a method, on the
\* locals loc and the file system files: the locals and the file system it leaves
PhaseStep(run_id, case_id, method, k, loc, files, graph_text) ==
    LET phase        == build_agent_phases[k]
        case_profile == get_case_profile(case_id)
        summary      == IF phase.phase_name \in {"pre_summary", "post_summary"}
                        THEN summarize_project_from_codebase(repo, method = "graph", graph_text)
                        ELSE <<>>
        out          == IF phase.phase_name = "pre_summary" THEN summary
                        ELSE phase_output(run_id, method, phase, loc.pre_summary, case_profile, files, summary)
        after        == IF phase.phase_name = "pre_summary" THEN files
                        ELSE phase_files(run_id, method, phase, case_profile, files)
    IN  [loc   |-> [pre_summary |-> IF phase.phase_name = "pre_summary" THEN summary ELSE loc.pre_summary,
                    outputs     |-> Append(loc.outputs, out),
                    state       |->
                       [noise_leaked   |-> IF case_profile.inject_context_noise /\ phase.phase_name = "post_summary"
                                           THEN Contains(out, NOISE_TOKEN) ELSE loc.state.noise_leaked,
                        drift_detected |-> IF case_profile.detect_doc_drift /\ phase.phase_name = "docs_step_update"
                                           THEN Contains(out, DRIFT_DETECTED) ELSE loc.state.drift_detected,
                        revert_clean   |-> IF phase.phase_name = "revert_and_cleanup"
                                           THEN \/ ImplDir(run_id, method) \notin after
                                                \/ ImplChildren(after, run_id, method) = {}
                                           ELSE loc.state.revert_clean]],
         files |-> after \cup {Artifact(run_id, method, phase)}]

\* the phases k..PhaseCount of a method one after the other
RECURSIVE RunPhases(_, _, _, _, _, _, _)
RunPhases(run_id, case_id, method, k, loc, files, graph_text) ==
    IF k > PhaseCount THEN [loc |-> loc, files |-> files]
    ELSE LET r == PhaseStep(run_id, case_id, method, k, loc, files, graph_text)
         IN  RunPhases(run_id, case_id, method, k + 1, r.loc, r.files, graph_text)

\* execute_agent_plan: the graph method, then the baseline method on the files it left
SequentialRun(run_id, case_id, graph_text) ==
    LET g == RunPhases(run_id, case_id, "graph", 1, FreshLocals, {}, graph_text)
        b == RunPhases(run_id, case_id, "baseline", 1, FreshLocals, g.files, graph_text)
    IN  [locals |-> [graph |-> g.loc, baseline |-> b.loc], files |-> b.files]

\* the runs to interleave: a case and an answer of the query endpoint that is a text
InterleaveCalls ==
    { [fn |-> "execute_agent_plan", run_id |-> 1, case_id |-> c, graph_text |-> t,
       pos |-> [graph |-> 1, baseline |-> 1],
       locals |-> [graph |-> FreshLocals, baseline |-> FreshLocals], files |-> {},
       overlapped |-> FALSE]
      : c \in SupportedCases, t \in {a \in GraphAnswers : a.type = "str"} }

\* the next phase of one of the two methods; overlapped records that baseline has run a
\* phase before graph was through, which the sequential execution never does
InterleaveStep ==
    /\ call.fn = "execute_agent_plan"
    /\ \E method \in MethodSet :
          /\ call.pos[method] <= PhaseCount
          /\ \E r \in {PhaseStep(call.run_id, call.case_id, method, call.pos[method], call.locals[method], call.files, call.graph_text)} :
                call' = [call EXCEPT !.pos[method] = @ + 1, !.locals[method] = r.loc, !.files = r.files,
                                      !.overlapped = @ \/ (method = "baseline" /\ call.pos["graph"] <= PhaseCount)]
    /\ UNCHANGED programVars

InitInterleave == \E c \in InterleaveCalls : InitCall(c)

NextInterleave == InterleaveStep

SpecInterleave == InitInterleave /\ [][NextInterleave]_vars

-----------------------------------------------------------------------------
(* The ranking views as functions of the result rows: a database with one  *)
(* EXECUTED run whose result rows are drawn from RankRows.                  *)

\* a row of agent_benchmark_results
RankRow(total_tokens, avg_accuracy, avg_change_tracking, retention, contamination, drift_detection, revert_integrity) ==
    [total_tokens           |-> total_tokens,
     avg_accuracy           |-> avg_accuracy,
     avg_change_tracking    |-> avg_change_tracking,
     completed_phases       |-> PhaseCount,
     retention_score        |-> retention,
     contamination_score    |-> contamination,
     drift_detection_score  |-> drift_detection,
     revert_integrity_score |-> revert_integrity]

\* the result rows drawn: token totals are positive, as execute_agent_plan leaves them;
\* retention_score and the three stress scores may be NULL, as in rows written before
\* init_tables added the columns
RankRows ==
    { RankRow(500, ONE, 208400, ONE, ONE, ONE, ONE),
      RankRow(500, ONE, 197600, ONE, ONE, ONE, ONE),
      RankRow(500, ONE, 240000, ONE, ONE, ONE, ONE),
      RankRow(500, 500000, 500000, ONE, ONE, ONE, ONE),
      RankRow(1000, ONE, ONE, ONE, ONE, ONE, ONE),
      RankRow(500, ONE, ONE, ONE, ONE, ONE, ONE),
      RankRow(1000, 0, 0, NULL, NULL, NULL, NULL),
      RankRow(500, 812500, 281250, 857000, 0, ONE, NULL),
      RankRow(1000, 812500, 281250, 857000, ONE, 0, 0) }

InitRank ==
    /\ repo = CHOOSE rp \in Repos : rp.readme = SampleText.readme_plain
    /\ clock = 1
    /\ runs = [r \in {1} |-> [generated_at |-> 1, status |-> "EXECUTED"]]
    /\ steps = EmptyTable
    /\ results = EmptyTable
    /\ committed = [runs |-> runs, steps |-> steps, results |-> results]
    /\ fs = {}
    /\ pc = "idle"
    /\ cur = Idle
    /\ pre_summary = <<>>
    /\ post_summary = <<>>
    /\ output_text = <<>>
    /\ previous_phase = ""
    /\ previous_hash = <<>>
    /\ state = InitialState
    /\ invocation = NoInvocation
    /\ tools = ToolsNotRun
    /\ call = NoCall

\* INSERT OR REPLACE INTO agent_benchmark_results of summarize_method_results, for any
\* aggregate values, followed by the commit
StoreResult ==
    /\ pc = "idle"
    /\ \E case_id \in SupportedCases, method \in MethodSet, row \in RankRows :
          LET key == <<1, case_id, method>>
          IN  /\ key \in DOMAIN results \/ Cardinality(DOMAIN results) < MaxRankRows
              /\ results' = [k \in DOMAIN results \cup {key} |->
                                IF k = key THEN row ELSE results[k]]
    /\ committed' = [runs |-> runs, steps |-> steps, results |-> results']
    /\ UNCHANGED <<repo, clock, runs, steps, fs, pc, cur, pre_summary, post_summary,
                   output_text, previous_phase, previous_hash, state, invocation, tools, call>>

NextRank == StoreResult

SpecRank == InitRank /\ [][NextRank]_vars

\* a row of agent_benchmark_results whose total_tokens is 0, as a writer other than
\* execute_agent_plan may store it (the column is INTEGER NOT NULL, 0 is admitted)
StoreZeroTokenResult ==
    /\ pc = "idle"
    /\ \E case_id \in SupportedCases, method \in MethodSet, row \in RankRows :
          LET key == <<1, case_id, method>>
          IN  /\ key \in DOMAIN results \/ Cardinality(DOMAIN results) < MaxRankRows
              /\ results' = [k \in DOMAIN results \cup {key} |->
                                IF k = key THEN [row EXCEPT !.total_tokens = 0] ELSE results[k]]
    /\ committed' = [runs |-> runs, steps |-> steps, results |-> results']
    /\ UNCHANGED <<repo, clock, runs, steps, fs, pc, cur, pre_summary, post_summary,
                   output_text, previous_phase, previous_hash, state, invocation, tools, call>>

NextRankZero == StoreResult \/ StoreZeroTokenResult

SpecRankZero == InitRank /\ [][NextRankZero]_vars

-----------------------------------------------------------------------------
(* Properties of the ranking views.                                        *)

\* the rows of the weighted-score view and of the winner view of the committed database
WeightedView == latest_agent_mode_weighted_scores(committed)
WinnerView == latest_agent_mode_winner(committed)

\* the rows of one case in the weighted-score view
CaseRows(case_id) == {x \in WeightedView : x.case_id = case_id}

\* row x is ranked above row z: weighted_score descending, then method name ascending
\* ('baseline' sorts before 'graph')
RankedAbove(x, z) ==
    \/ x.weighted_score > z.weighted_score
    \/ x.weighted_score = z.weighted_score /\ x.method = "baseline" /\ z.method = "graph"

\* C2: for every case in the weighted-score view the winner view has one row; it reports
\* 'tie' exactly when a second-ranked method exists and the gap between the top two
\* weighted scores is smaller than 0.005, and the top-ranked method otherwise.  Scores
\* 0.8021 and 0.7994 give 'tie', scores 0.81 and 0.70 give the method with 0.81, and a
\* case with a single method names that method.
C2_WinnerOrTie ==
    \A case_id \in {x.case_id : x \in WeightedView} :
        LET rows == CaseRows(case_id)
            top  == CHOOSE x \in rows : \A z \in rows \ {x} : RankedAbove(x, z)
            rest == rows \ {top}
            gap_small == \E second \in rest :
                            /\ \A z \in rest \ {second} : RankedAbove(second, z)
                            /\ top.weighted_score - second.weighted_score < 50
            shown == {w \in WinnerView : w.case_id = case_id}
        IN  /\ Cardinality(shown) = 1
            /\ \A w \in shown :
                  /\ w.winner_method = (IF gap_small THEN "tie" ELSE top.method)
                  /\ {x.weighted_score : x \in rows} = {8021, 7994} => w.winner_method = "tie"
                  /\ {x.weighted_score : x \in rows} = {8100, 7000}
                        => \E x \in rows : x.weighted_score = 8100 /\ w.winner_method = x.method
                  /\ Cardinality(rows) = 1 => \E x \in rows : w.winner_method = x.method

\* two methods of a case score 0.8021 and 0.7994 and the winner view shows a tie
C2_Witness ==
    \E w \in WinnerView :
        /\ w.winner_method = "tie"
        /\ w.winner_score = 8021
        /\ w.second_score = 7994

\* C3: for every row of the weighted-score view, weighted_score is 0.35 avg_accuracy
\* + 0.25 avg_change_tracking + 0.15 retention_score + 0.15 case_metric
\* + 0.10 token_efficiency rounded to 4 decimals, an absent term counting as 0; case_metric
\* is contamination_score for A002, drift_detection_score for A003, revert_integrity_score
\* for A004 and the average of the three stress scores for any other case.  The sum is
\* taken in units of 10^-8 with token_efficiency cut to 6 decimals, so the rounded value
\* lies within half a unit of the fourth decimal of it.
C3_WeightedScoreFormula ==
    \A x \in WeightedView :
        LET row == committed.results[<<x.run_id, x.case_id, x.method>>]
            term(v) == IF v = NULL THEN 0 ELSE v
            metric3 == IF x.case_id = "A002" THEN 3 * term(row.contamination_score)
                       ELSE IF x.case_id = "A003" THEN 3 * term(row.drift_detection_score)
                       ELSE IF x.case_id = "A004" THEN 3 * term(row.revert_integrity_score)
                       ELSE term(row.contamination_score) + term(row.drift_detection_score)
                            + term(row.revert_integrity_score)
            lowest == CHOOSE t \in {y.total_tokens : y \in CaseRows(x.case_id)} :
                         \A y \in CaseRows(x.case_id) : t <= y.total_tokens
            efficiency == IF row.total_tokens = 0 THEN 0
                          ELSE (ONE * lowest) \div row.total_tokens
            sum == 35 * term(row.avg_accuracy) + 25 * term(row.avg_change_tracking)
                   + 15 * term(row.retention_score) + 5 * metric3 + 10 * efficiency
        IN  /\ 10000 * x.weighted_score - 5000 <= sum + 10
            /\ sum < 10000 * x.weighted_score + 5000

\* a row of the neutral case with contamination 0, drift detection 1 and no revert
\* integrity score: 0.35 * 0.8125 + 0.25 * 0.28125 + 0.15 * 0.857 + 0.15 * (1/3) + 0.10
C3_Witness ==
    \E x \in WeightedView :
        /\ x.case_id = "A001"
        /\ committed.results[<<x.run_id, x.case_id, x.method>>].contamination_score = 0
        /\ committed.results[<<x.run_id, x.case_id, x.method>>].revert_integrity_score = NULL
        /\ x.token_efficiency.num = x.token_efficiency.den
        /\ x.weighted_score = 6332

\* a score between 0 and 1
InUnitInterval(v) == 0 <= v /\ v <= ONE

\* C4: whenever avg_accuracy, avg_change_tracking, retention_score and the three stress
\* scores of every result row lie in [0, 1], every weighted_score of the weighted-score
\* view lies in [0, 1], whatever the total_tokens of the methods of a case.
C4_WeightedScoreInUnitInterval ==
    (\A k \in DOMAIN committed.results :
        /\ InUnitInterval(committed.results[k].avg_accuracy)
        /\ InUnitInterval(committed.results[k].avg_change_tracking)
        /\ InUnitInterval(committed.results[k].retention_score)
        /\ InUnitInterval(committed.results[k].contamination_score)
        /\ InUnitInterval(committed.results[k].drift_detection_score)
        /\ InUnitInterval(committed.results[k].revert_integrity_score))
    => \A x \in WeightedView : 0 <= x.weighted_score /\ x.weighted_score <= 10000

\* two methods of a case with every score equal to 1 and token totals 500 and 1000: the
\* weighted scores are 1.0 and 0.95
C4_Witness ==
    \E x \in WeightedView, y \in WeightedView :
        /\ x.case_id = y.case_id
        /\ x.total_tokens = 500 /\ y.total_tokens = 1000
        /\ \A z \in {x, y} :
              /\ z.avg_accuracy = ONE /\ z.avg_change_tracking = ONE
              /\ z.retention_score = ONE /\ z.case_metric.num = z.case_metric.den * ONE
        /\ x.weighted_score = 10000
        /\ y.weighted_score = 9500

\* C5: for every case, token_efficiency of a method is (minimum total_tokens over the
\* methods of the case) / (its own total_tokens): the method with the lowest total scores
\* 1.0, every other method at most 1.0, and totals 500 and 1000 give 1.0 and 0.5.
C5_TokenEfficiency ==
    \A x \in WeightedView :
        LET rows == CaseRows(x.case_id)
        IN  /\ x.token_efficiency.den = x.total_tokens
            /\ \E y \in rows : y.total_tokens = x.token_efficiency.num
            /\ \A y \in rows : x.token_efficiency.num <= y.total_tokens
            /\ x.token_efficiency.num <= x.token_efficiency.den
            /\ (\A y \in rows : x.total_tokens <= y.total_tokens)
                  => x.token_efficiency.num = x.token_efficiency.den
            /\ {y.total_tokens : y \in rows} = {500, 1000}
                  => /\ x.total_tokens = 500 => x.token_efficiency.num = x.token_efficiency.den
                     /\ x.total_tokens = 1000
                           => 2 * x.token_efficiency.num = x.token_efficiency.den

\* two methods of a case total 500 and 1000 tokens; the second has token_efficiency 0.5
C5_Witness ==
    \E x \in WeightedView, y \in WeightedView :
        /\ x.case_id = y.case_id
        /\ x.total_tokens = 500 /\ x.token_efficiency = [num |-> 500, den |-> 500]
        /\ y.total_tokens = 1000 /\ y.token_efficiency = [num |-> 500, den |-> 1000]

\* the weighted score of a view row whose token_efficiency contributes nothing
ScoreWithoutTokens(x) == weighted_score(x.avg_accuracy, x.avg_change_tracking, x.retention_score, x.case_metric, [num |-> 0, den |-> 1])

\* C22: a result row whose total_tokens is 0 never makes the ranking views fail: its
\* token_efficiency is NULL and adds 0 to its weighted_score, and every other method of
\* the case still has a row with a weighted_score (its token_efficiency is 0 / own total,
\* or NULL when its own total is 0 as well); the winner view has its row for the case.
C22_ZeroTokensRanked ==
    \A x \in WeightedView :
        x.total_tokens = 0 =>
            /\ x.token_efficiency.den = 0
            /\ x.weighted_score = ScoreWithoutTokens(x)
            /\ x.weighted_score \in 0..9000
            /\ \A k \in latest_per_method(committed) :
                  k[2] = x.case_id =>
                      \E y \in CaseRows(x.case_id) :
                          /\ y.method = k[3]
                          /\ y.token_efficiency.num = 0
                          /\ y.weighted_score = ScoreWithoutTokens(y)
                          /\ y.weighted_score \in 0..9000
            /\ Cardinality({w \in WinnerView : w.case_id = x.case_id}) = 1

\* a case with a method of 0 tokens and a method of 500 tokens, every score 1: both
\* weighted scores are 0.9
C22_Witness ==
    \E x \in WeightedView, y \in WeightedView :
        /\ x.case_id = y.case_id
        /\ x.total_tokens = 0 /\ y.total_tokens = 500
        /\ x.token_efficiency.den = 0
        /\ y.token_efficiency = [num |-> 0, den |-> 500]
        /\ x.avg_accuracy = ONE /\ y.avg_accuracy = ONE
        /\ x.weighted_score = 9000 /\ y.weighted_score = 9000

-----------------------------------------------------------------------------
(* Properties of the phase executor.                                       *)

\* the phase loop has just run docs_step_update for the method Methods[cur.method]
AfterDocsStepUpdate == pc = "phase" /\ previous_phase = "docs_step_update"

\* the word 'drift_check_inconclusive'
DriftCheckSentinel == SubSeq(OutputText.drift_check_inconclusive, Len(OutputText.docs_neutral) + 2,
                             Len(OutputText.drift_check_inconclusive))

\* C1: for every case profile and method, the docs_step_update output is the drift-detected
\* marker text when detect_doc_drift is set and the method is graph, and otherwise a
\* non-empty neutral acknowledgement: not the empty text, without the drift marker and
\* without the drift_check_inconclusive sentinel.
C1_DocsStepUpdateOutput ==
    AfterDocsStepUpdate =>
        IF get_case_profile(cur.case_id).detect_doc_drift /\ Methods[cur.method] = "graph"
        THEN output_text = OutputText.docs_drift
        ELSE /\ output_text # <<>>
             /\ ~Contains(output_text, DRIFT_DETECTED)
             /\ ~Contains(output_text, DriftCheckSentinel)

\* the phase loop of a method has ended with post_summary; summarize_method_results is next
AfterPostSummary == pc = "summarize" /\ previous_phase = "post_summary"

\* the runs of D with status EXECUTED and the greatest generated_at among those
LatestExecutedRun(D) ==
    {r \in DOMAIN D.runs :
        /\ D.runs[r].status = "EXECUTED"
        /\ \A q \in DOMAIN D.runs :
              D.runs[q].status = "EXECUTED" => D.runs[q].generated_at <= D.runs[r].generated_at}

\* the result rows of the most recent EXECUTED run of D
LatestExecutedResults(D) == {k \in DOMAIN D.results : k[1] \in LatestExecutedRun(D)}

\* C6: after any sequence of plan-only and execute invocations each persisted view shows
\* the rows of the single most recent EXECUTED run and nothing else: the two comparison
\* views and the weighted-score view have one row per result row of that run, and the
\* winner view is the ranking of those rows; a later plan-only run or an older executed
\* run of another case changes nothing.
C6_ViewsShowLatestExecutedRun ==
    pc = "idle" =>
        /\ {<<x.run_id, x.method>> : x \in latest_agent_mode_comparison(committed)}
              = {<<k[1], k[3]>> : k \in LatestExecutedResults(committed)}
        /\ {<<x.run_id, x.case_id, x.method>> : x \in latest_agent_mode_case_metrics(committed)}
              = LatestExecutedResults(committed)
        /\ {<<x.run_id, x.case_id, x.method>> : x \in WeightedView}
              = LatestExecutedResults(committed)
        /\ {w.case_id : w \in WinnerView} = {k[2] : k \in LatestExecutedResults(committed)}

\* C7: in every database state (committed or inside the open transaction) no row of the
\* weighted-score view or of the winner view comes from a PLANNED run, and the
\* weighted-score view has exactly one row per (case, method) that has a result in some
\* EXECUTED run, taken from the executed run with the greatest generated_at for that pair.
C7_RankingFromExecutedRuns ==
    \A D \in {committed, Tables} :
        LET executed == {k \in DOMAIN D.results : D.runs[k[1]].status = "EXECUTED"}
            view     == latest_agent_mode_weighted_scores(D)
        IN  /\ \A x \in view : D.runs[x.run_id].status # "PLANNED"
            /\ \A w \in latest_agent_mode_winner(D) :
                  \E x \in view : /\ x.case_id = w.case_id
                                  /\ x.weighted_score = w.winner_score
                                  /\ D.runs[x.run_id].status = "EXECUTED"
            /\ {<<x.case_id, x.method>> : x \in view} = {<<k[2], k[3]>> : k \in executed}
            /\ \A x \in view, y \in view :
                  (x.case_id = y.case_id /\ x.method = y.method) => x = y
            /\ \A x \in view, k \in executed :
                  (k[2] = x.case_id /\ k[3] = x.method)
                     => /\ D.runs[k[1]].generated_at <= D.runs[x.run_id].generated_at
                        /\ x.generated_at = D.runs[x.run_id].generated_at
                        /\ <<x.run_id, x.case_id, x.method>> \in executed

\* inside the transaction of a second execution of a case: the PLANNED run already has a
\* result row, and the weighted-score view still shows the row of the earlier EXECUTED run
C7_Witness ==
    \E k \in DOMAIN results :
        /\ runs[k[1]].status = "PLANNED"
        /\ \E x \in latest_agent_mode_weighted_scores(Tables) :
              /\ x.case_id = k[2]
              /\ x.method = k[3]
              /\ x.run_id # k[1]
              /\ runs[x.run_id].status = "EXECUTED"

\* C8: after execute_agent_plan completes for a supported case, each of the two methods
\* has exactly one step row per catalog phase (phase_order 1..8), each COMPLETED with
\* token counts and scores that are not NULL, and the result row of the method has
\* completed_phases = 8 and total_tokens equal to the sum of the 8 step totals.
C8_ExecutedRunComplete ==
    \A r \in DOMAIN committed.runs :
        committed.runs[r].status = "EXECUTED" =>
            \A method \in MethodSet :
                LET K == {k \in DOMAIN committed.steps : k[1] = r /\ k[3] = method}
                    R == {k \in DOMAIN committed.results : k[1] = r /\ k[3] = method}
                IN  /\ Cardinality(K) = 8
                    /\ {k[4] : k \in K} = 1..8
                    /\ \A k \in K :
                          /\ k[2] \in SupportedCases
                          /\ committed.steps[k].status = "COMPLETED"
                          /\ committed.steps[k].input_tokens # NULL
                          /\ committed.steps[k].output_tokens # NULL
                          /\ committed.steps[k].total_tokens # NULL
                          /\ committed.steps[k].accuracy # NULL
                          /\ committed.steps[k].change_tracking_score # NULL
                    /\ Cardinality(R) = 1
                    /\ \A k \in R :
                          /\ \A j \in K : j[2] = k[2]
                          /\ committed.results[k].completed_phases = 8
                          /\ committed.results[k].total_tokens
                                = committed.steps[<<r, k[2], method, 1>>].total_tokens
                                  + committed.steps[<<r, k[2], method, 2>>].total_tokens
                                  + committed.steps[<<r, k[2], method, 3>>].total_tokens
                                  + committed.steps[<<r, k[2], method, 4>>].total_tokens
                                  + committed.steps[<<r, k[2], method, 5>>].total_tokens
                                  + committed.steps[<<r, k[2], method, 6>>].total_tokens
                                  + committed.steps[<<r, k[2], method, 7>>].total_tokens
                                  + committed.steps[<<r, k[2], method, 8>>].total_tokens

\* two executions have completed, the second one of the revert-stress case
C8_Witness ==
    /\ pc = "idle"
    /\ \A r \in {1, 2} : r \in DOMAIN committed.runs /\ committed.runs[r].status = "EXECUTED"
    /\ \E k \in DOMAIN committed.results : k[1] = 2 /\ k[2] = "A004"

\* C9: for every (case, method) the contamination_score written by
\* summarize_method_results is 0.0 exactly when the case profile has inject_context_noise
\* set and the noise token occurs in the post_summary output of that method, and 1.0
\* otherwise, also for a case without noise injection whose output contains the token.
C9_ContaminationScore ==
    [][AfterPostSummary =>
          results'[<<cur.run_id, cur.case_id, Methods[cur.method]>>].contamination_score
             = (IF get_case_profile(cur.case_id).inject_context_noise
                   /\ Contains(output_text, NOISE_TOKEN)
                THEN 0 ELSE ONE)]_vars

\* a run of the noise case scored contamination 0.0 for baseline, whose post_summary
\* echoed the token, and 1.0 for graph
C9_Witness ==
    \E r \in DOMAIN runs :
        /\ <<r, "A002", "graph">> \in DOMAIN results
        /\ <<r, "A002", "baseline">> \in DOMAIN results
        /\ results[<<r, "A002", "graph">>].contamination_score = ONE
        /\ results[<<r, "A002", "baseline">>].contamination_score = 0

\* C10: under the noise-injection case A002 and the baseline method the post_summary
\* output contains the noise token whatever the length of the project-state digest, so
\* noise_leaked is true after post_summary.
C10_BaselineEchoesNoiseToken ==
    (AfterPostSummary /\ cur.case_id = "A002" /\ Methods[cur.method] = "baseline")
        => Contains(output_text, NOISE_TOKEN) /\ state.noise_leaked

\* the phase loop has just run revert_and_cleanup for the method Methods[cur.method]
AfterRevert == pc = "phase" /\ previous_phase = "revert_and_cleanup"

\* C11: under the revert-stress case A004, after revert_and_cleanup the synthetic
\* implementation directory of the baseline method holds exactly one residual file, so
\* revert_clean is false and revert_integrity_score is 0.0, while the directory of the
\* graph method is absent and its score is 1.0; in every case without revert stress both
\* methods end with revert_integrity_score 1.0.
C11_RevertIntegrity ==
    /\ AfterRevert =>
          IF cur.case_id = "A004" /\ Methods[cur.method] = "baseline"
          THEN /\ ImplDir(cur.run_id, "baseline") \in fs
               /\ ImplChildren(fs, cur.run_id, "baseline") = {Residual(cur.run_id, "baseline")}
               /\ ~state.revert_clean
          ELSE /\ ImplDir(cur.run_id, Methods[cur.method]) \notin fs
               /\ ImplChildren(fs, cur.run_id, Methods[cur.method]) = {}
               /\ state.revert_clean
    /\ \A k \in DOMAIN results :
          results[k].revert_integrity_score
             = (IF k[2] = "A004" /\ k[3] = "baseline" THEN 0 ELSE ONE)

\* a run of A004 has scored revert integrity 1.0 for graph and 0.0 for baseline, whose
\* residual.lock is still on disk
C11_Witness ==
    \E r \in DOMAIN runs :
        /\ <<r, "A004", "graph">> \in DOMAIN results
        /\ <<r, "A004", "baseline">> \in DOMAIN results
        /\ results[<<r, "A004", "graph">>].revert_integrity_score = ONE
        /\ results[<<r, "A004", "baseline">>].revert_integrity_score = 0
        /\ Residual(r, "baseline") \in fs

\* the synthetic files phase_output writes as side effects for one (run, method)
SideEffectFiles(run_id, method) == {DriftSeed(run_id, method), ImplFile(run_id, method), TestFile(run_id, method)}

\* C23: after revert_and_cleanup, unless the case is the revert-stress case A004 and the
\* method is baseline, none of the synthetic side-effect files of that (run, method) is
\* left on disk: the drift seed of feature_plan, the implementation file and the
\* test-evidence file are gone, for every case profile.
C23_RevertRemovesSideEffects ==
    (AfterRevert /\ ~(cur.case_id = "A004" /\ Methods[cur.method] = "baseline"))
        => fs \cap SideEffectFiles(cur.run_id, Methods[cur.method]) = {}

\* 1 when the text names the category, 0 otherwise
OneIf(b) == IF b THEN 1 ELSE 0

\* C24: for every phase and output, the change-tracking score is min(1.0, count / 4),
\* where count is the number of reference categories present in the output (synthetic;
\* context or trace; docs, documentation or phase) plus one bonus point only when the
\* phase is the revert phase and the output mentions revert; the score is one of 0, 0.25,
\* 0.5, 0.75, 1.0 and it is 1.0 only for the revert phase.  The first two categories and
\* the mention of revert are found in any letter case, the third as written.
C24_ChangeTrackingScore ==
    (call.fn = "phase_change_tracking_score" /\ call.applied = 1) =>
        LET count == OneIf(call.parts[1] # <<>>) + OneIf(call.parts[2] # <<>>)
                     + OneIf(call.parts[3] \in {Markers.docs, Markers.documentation, Markers.phase})
                     + OneIf(call.phase.requires_revert /\ call.parts[4] # <<>>)
        IN  /\ call.score = 250 * Min(4, count)
            /\ call.score \in {0, 250, 500, 750, 1000}
            /\ call.score = 1000 => call.phase.phase_name = "revert_and_cleanup"

\* the revert phase scored 1.0 on the output 'synthetic trace docs revert'
C24_Witness ==
    /\ call.fn = "phase_change_tracking_score" /\ call.applied = 1
    /\ call.parts = <<Markers.synthetic, Markers.trace, Markers.docs, Markers.revert>>
    /\ call.phase.phase_name = "revert_and_cleanup"
    /\ call.score = 1000

\* C12: drift_detection_score is 1.0 when the case profile does not set detect_doc_drift;
\* when it does, the score is 1.0 exactly when the drift marker was observed in the
\* docs_step_update output of that method, so that under A003 graph scores 1.0 and
\* baseline 0.0.
C12_DriftDetectionScore ==
    /\ AfterDocsStepUpdate =>
          state.drift_detected
             = (get_case_profile(cur.case_id).detect_doc_drift
                /\ Contains(output_text, DRIFT_DETECTED))
    /\ AfterPostSummary =>
          state.drift_detected = (cur.case_id = "A003" /\ Methods[cur.method] = "graph")
    /\ \A k \in DOMAIN results :
          results[k].drift_detection_score
             = (IF k[2] = "A003" /\ k[3] = "baseline" THEN 0 ELSE ONE)

\* a run of A003 has scored drift detection 1.0 for graph and 0.0 for baseline
C12_Witness ==
    \E r \in DOMAIN runs :
        /\ <<r, "A003", "graph">> \in DOMAIN results
        /\ <<r, "A003", "baseline">> \in DOMAIN results
        /\ results[<<r, "A003", "graph">>].drift_detection_score = ONE
        /\ results[<<r, "A003", "baseline">>].drift_detection_score = 0

-----------------------------------------------------------------------------
\* an invocation main --execute of a case of the registry is over
ExecuteOver ==
    /\ pc = "idle"
    /\ invocation.mode = "execute"
    /\ invocation.case_id \in SupportedCases

\* C13: whatever the query endpoint answers (timeout, non-zero exit, empty, unparseable
\* or structurally unexpected response), the execution of a registered case does not end
\* with an exception: when main is over, its run is EXECUTED, its 16 steps are COMPLETED
\* with their scores recorded, and both result rows are written.
C13_EndpointFailureTolerated ==
    ExecuteOver =>
        /\ invocation.raised = NoError
        /\ runs[clock].status = "EXECUTED"
        /\ \A k \in DOMAIN steps :
              k[1] = clock => /\ steps[k].status = "COMPLETED"
                              /\ steps[k].accuracy # NULL
        /\ \A method \in MethodSet : <<clock, invocation.case_id, method>> \in DOMAIN results

-----------------------------------------------------------------------------
\* C14: in the tool benchmark a call that exceeds its timeout does not end main: the
\* attempt is recorded as an unsuccessful, scored result of the case, and main goes on.
C14_TimeoutIsFailedCall ==
    /\ tools.raised # "TimeoutExpired"
    /\ tools.pc \in {"baseline", "notes"} => tools.mcp.accuracy # NULL
    /\ tools.pc = "notes" => tools.baseline.accuracy # NULL

-----------------------------------------------------------------------------
\* C15: an invocation of main that ends with a configuration error (an unknown case id
\* with --execute, or --plan-only together with --execute) has run no phase: the step
\* rows it leaves are the ones there were plus rows in status PLANNED, no result row and
\* no file has been written, nothing but the plan is committed; and the message for an
\* unknown case id lists every case id of the registry.
C15_ConfigErrorBeforeAnyPhase ==
    [][(pc = "idle" /\ invocation'.raised.type = "ValueError") =>
          /\ pc' = "idle"
          /\ fs' = fs
          /\ results' = results
          /\ committed'.results = committed.results
          /\ \A k \in DOMAIN steps : steps'[k] = steps[k]
          /\ \A k \in DOMAIN steps' \ DOMAIN steps : steps'[k].status = "PLANNED"
          /\ \A r \in DOMAIN runs' \ DOMAIN runs : runs'[r].status = "PLANNED"
          /\ invocation'.mode = "both" => UNCHANGED <<runs, steps, committed>>
          /\ invocation'.mode = "execute" =>
                \A case_id \in SupportedCases :
                    Contains(invocation'.raised.message, CaseIdText[case_id])]_vars

\* an unknown case id was refused after an earlier run had executed and left its files
C15_Witness ==
    /\ invocation.mode = "execute"
    /\ invocation.raised.type = "ValueError"
    /\ invocation.case_id \notin SupportedCases
    /\ fs # {}
    /\ \E r \in DOMAIN runs : runs[r].status = "EXECUTED"

-----------------------------------------------------------------------------
\* C16: in every committed state every step row references a phase of the catalog (its
\* ordinal with the name the catalog gives it) and a case id of the registry.
C16_StepRowsReferenceCatalogAndRegistry ==
    \A k \in DOMAIN committed.steps :
        /\ k[4] \in 1..PhaseCount
        /\ committed.steps[k].phase_name = build_agent_phases[k[4]].phase_name
        /\ k[2] \in SupportedCases

-----------------------------------------------------------------------------
\* from the table old of runs to the table new: no run disappears or changes its creation
\* time, a new run is PLANNED, an EXECUTED run stays EXECUTED, and a run becomes EXECUTED
\* only when, before the step, its 16 step rows are COMPLETED and both its result rows
\* are written
RunStatusForward(old, new) ==
    /\ DOMAIN old \subseteq DOMAIN new
    /\ \A r \in DOMAIN new \ DOMAIN old : new[r].status = "PLANNED"
    /\ \A r \in DOMAIN old :
          /\ new[r].generated_at = old[r].generated_at
          /\ new[r].status \in {"PLANNED", "EXECUTED"}
          /\ old[r].status = "EXECUTED" => new[r].status = "EXECUTED"
          /\ (old[r].status = "PLANNED" /\ new[r].status = "EXECUTED") =>
                /\ Cardinality({k \in DOMAIN steps : k[1] = r}) = 2 * PhaseCount
                /\ \A k \in DOMAIN steps : k[1] = r => steps[k].status = "COMPLETED"
                /\ {k[3] : k \in {x \in DOMAIN results : x[1] = r}} = MethodSet

\* C17: a run is created once, with status PLANNED, and its status only moves forward to
\* EXECUTED, in the open connection and in the committed database; it becomes EXECUTED
\* only after the 8 phases of both methods are COMPLETED and both result rows are written.
C17_RunStatusMonotonic ==
    [][RunStatusForward(runs, runs') /\ RunStatusForward(committed.runs, committed'.runs)]_vars

\* an executed run has kept its status while a later run was planned
C17_Witness ==
    \E r, q \in DOMAIN committed.runs :
        /\ committed.runs[r].generated_at < committed.runs[q].generated_at
        /\ committed.runs[r].status = "EXECUTED"
        /\ committed.runs[q].status = "PLANNED"
        /\ invocation.mode = "plan-only"

-----------------------------------------------------------------------------
\* the rows of one (run, case, method) in a database D are all there and COMPLETED and
\* its result row is written, or none is COMPLETED and no result row is written
MethodUnitWhole(D, r, case_id, method) ==
    LET K == {k \in DOMAIN D.steps : k[1] = r /\ k[2] = case_id /\ k[3] = method}
    IN  \/ /\ Cardinality(K) = PhaseCount
           /\ \A k \in K : D.steps[k].status = "COMPLETED"
           /\ <<r, case_id, method>> \in DOMAIN D.results
        \/ /\ \A k \in K : D.steps[k].status = "PLANNED"
           /\ <<r, case_id, method>> \notin DOMAIN D.results

\* C18: when execute_agent_plan is ended by an exception in any phase of either method,
\* the committed database is the one create_agent_plan left: the run is PLANNED, its 16
\* step rows are PLANNED and it has no result row; and in every committed state each
\* (run, case, method) has its 8 steps COMPLETED and its result row, or neither.
C18_AbortLeavesPlanState ==
    /\ (pc = "idle" /\ invocation.raised.type \in {"OSError", "TypeError"}) =>
          /\ committed.runs[clock].status = "PLANNED"
          /\ Cardinality({k \in DOMAIN committed.steps : k[1] = clock}) = 2 * PhaseCount
          /\ \A k \in DOMAIN committed.steps :
                k[1] = clock => committed.steps[k] = PlannedSteps(clock, k[2])[k]
          /\ \A k \in DOMAIN committed.results : k[1] # clock
          /\ Tables = committed
    /\ \A k \in DOMAIN committed.steps : MethodUnitWhole(committed, k[1], k[2], k[3])
    /\ \A k \in DOMAIN committed.results : MethodUnitWhole(committed, k[1], k[2], k[3])

\* write_artifact failed in a phase of method baseline, after the 8 phases of method graph
\* and its result row, in the second run of a database whose first run was executed
C18_Witness ==
    /\ pc = "idle"
    /\ invocation.raised.type = "OSError"
    /\ Artifact(clock, "graph", build_agent_phases[PhaseCount]) \in fs
    /\ Artifact(clock, "baseline", build_agent_phases[1]) \in fs
    /\ \E r \in DOMAIN committed.runs : committed.runs[r].status = "EXECUTED"

-----------------------------------------------------------------------------
\* the phase names in the order of the catalog
CatalogNames ==
    <<"pre_summary", "feature_plan", "docs_step_update", "implementation", "tests",
      "docs_post_impl", "revert_and_cleanup", "post_summary">>

\* C19: build_agent_phases gives 8 phases in the order pre_summary .. post_summary with
\* the ordinals 1..8, unique names, and requires_revert for revert_and_cleanup only; the
\* step rows every call of create_agent_plan makes from it carry exactly these phases.
C19_PhaseCatalog ==
    /\ Len(build_agent_phases) = Len(CatalogNames)
    /\ \A i \in DOMAIN build_agent_phases :
          /\ build_agent_phases[i].phase_order = i
          /\ build_agent_phases[i].phase_name = CatalogNames[i]
          /\ build_agent_phases[i].requires_revert = (CatalogNames[i] = "revert_and_cleanup")
    /\ \A i, j \in DOMAIN build_agent_phases :
          build_agent_phases[i].phase_name = build_agent_phases[j].phase_name => i = j
    /\ Cardinality({i \in DOMAIN build_agent_phases : build_agent_phases[i].requires_revert}) = 1
    /\ \A r \in DOMAIN runs, method \in MethodSet :
          {k[4] : k \in {x \in DOMAIN steps : x[1] = r /\ x[3] = method}} = 1..Len(CatalogNames)
    /\ \A k \in DOMAIN steps :
          /\ steps[k].phase_name = CatalogNames[k[4]]
          /\ steps[k].requires_revert = (steps[k].phase_name = "revert_and_cleanup")

\* two plans made by two calls, the first of them executed through its revert phase
C19_Witness ==
    /\ Cardinality(DOMAIN runs) >= 2
    /\ \E k \in DOMAIN steps :
          /\ steps[k].requires_revert
          /\ steps[k].status = "COMPLETED"
          /\ \E q \in DOMAIN runs : runs[q].generated_at > runs[k[1]].generated_at

-----------------------------------------------------------------------------
\* C20: the retention score summarize_method_results stores is the Jaccard index of the
\* lower-cased, whitespace-separated word sets of the pre- and the post-summary (rounded
\* to 3 decimals): 1.0 when neither text has a word, 1.0 for identical texts, the same
\* with the two texts exchanged, and between 0 and 1.
C20_RetentionIsJaccard ==
    [][pc = "summarize" =>
          LET A == Words(pre_summary)
              B == Words(post_summary)
              I == Cardinality(A \cap B)
              U == Cardinality(A \cup B)
              v == results'[<<cur.run_id, cur.case_id, Methods[cur.method]>>].retention_score
              t == v \div 1000
          IN  /\ 0 <= v /\ v <= ONE
              /\ v % 1000 = 0
              /\ U = 0 => v = ONE
              /\ U # 0 => 2 * Abs(t * U, 1000 * I) <= U
              /\ pre_summary = post_summary => v = ONE
              /\ A = B => v = ONE
              /\ v = 1000 * retention_score(post_summary, pre_summary)]_vars

\* a stored retention score of 0.333: one common word of three
C20_Witness ==
    /\ pc = "phase"
    /\ <<1, "A001", "graph">> \in DOMAIN results
    /\ results[<<1, "A001", "graph">>].retention_score = 333000

-----------------------------------------------------------------------------
\* C21: compress_text is idempotent: applied to its own result with the same limit it
\* returns that result unchanged.
C21_CompressTextIdempotent ==
    (call.fn = "compress_text" /\ call.applied = 2) => call.text = call.previous


\* the method statement of to_markdown: '19 tools => 76 scenarios', at least 4 per tool
MethodStatement == [tools |-> 19, scenarios |-> 76, per_tool |-> 4]

\* C25: the case list of build_cases matches the method statement printed in the report:
\* it covers 19 tools, every tool has at least 4 scenarios, and there are 76 scenarios
\* with the ids T001..T076; main takes its cases from that list.
C25_CasesMatchMethodStatement ==
    LET used == {build_cases[i].tool : i \in DOMAIN build_cases}
    IN  /\ tools.case \in DOMAIN build_cases
        /\ Cardinality(used) = MethodStatement.tools
        /\ \A t \in used : Cardinality({i \in DOMAIN build_cases : build_cases[i].tool = t}) >= MethodStatement.per_tool
        /\ Len(build_cases) = MethodStatement.scenarios
        /\ {build_cases[i].id : i \in DOMAIN build_cases} = 1..MethodStatement.scenarios


\* text t ends with text s
EndsWith(t, s) == MatchAt(t, Len(t) - Len(s) + 1, s)

\* the end of a context that names the phase `name` and the fingerprint `hash`
PreviousSuffix(name, hash) == ContextText.prev_phase \o name \o ContextText.prev_hash \o hash

\* C26: within one method run the phases execute in ordinal order, and the context of
\* phase k > 1 carries the name of phase k-1 and the hash of the output of phase k-1 of
\* the same method and nothing of earlier phases; the context of phase 1 carries 'none'
\* for both, also for the second method of the run.  The context is the text whose token
\* estimate the step row of the phase stores.
C26_ContextCarriesPreviousPhaseOnly ==
    [][(pc = "phase" /\ steps' # steps) =>
          LET k       == cur.phase
              method  == Methods[cur.method]
              phase   == build_agent_phases[k]
              context == seed_phase_context(phase, method, previous_phase, previous_hash, cur.case_id)
              key     == <<cur.run_id, cur.case_id, method, k>>
          IN  /\ phase.phase_order = k
              /\ IF k = 1
                 THEN /\ previous_phase = "" /\ previous_hash = <<>>
                      /\ EndsWith(context, PreviousSuffix(ContextText.none, ContextText.none))
                 ELSE /\ previous_phase = build_agent_phases[k - 1].phase_name
                      /\ previous_hash = hash_text(output_text)
                      /\ steps[<<cur.run_id, cur.case_id, method, k - 1>>].output_tokens = estimate_tokens(output_text)
                      /\ EndsWith(context, PreviousSuffix(PhaseNameText[previous_phase], previous_hash))
              /\ \A j \in 1..PhaseCount :
                    (j < k - 1 /\ PhaseNameText[build_agent_phases[j].phase_name] # ContextText.none)
                        => ~Contains(context, ContextText.prev_phase \o PhaseNameText[build_agent_phases[j].phase_name])
              /\ \A q \in DOMAIN steps' : steps'[q] # steps[q] => q = key
              /\ steps'[key].status = "COMPLETED"
              /\ steps'[key].input_tokens = estimate_tokens(context)
              /\ IF k < PhaseCount THEN pc' = "phase" /\ cur'.phase = k + 1 /\ cur'.method = cur.method
                 ELSE pc' = "summarize"]_vars

\* the second method of a run is about to execute its phase 2, with the name and the
\* hash of its own pre_summary as rolling state
C26_Witness ==
    /\ pc = "phase" /\ cur.method = 2 /\ cur.phase = 2
    /\ previous_phase = "pre_summary"
    /\ previous_hash = hash_text(pre_summary)
    /\ Len(previous_hash) = 12


\* both methods of the interleaved run have executed their last phase
InterleaveDone == call.fn = "execute_agent_plan" /\ \A m \in MethodSet : call.pos[m] = PhaseCount + 1

\* C27: the paths the phases of one (run, method) write, read or remove are those of
\* that (run, method) only, so under every interleaving of the phases of graph with the
\* phases of baseline (each method's phases in order) each method ends with the phase
\* outputs, the tests pass marker and the noise_leaked, drift_detected and revert_clean
\* flags of the sequential execution, and the files left are the same.
C27_InterleavingIndependent ==
    call.fn = "execute_agent_plan" =>
        /\ \A f \in call.files : f.run = call.run_id /\ f.method \in MethodSet /\ call.pos[f.method] > 1
        /\ InterleaveDone =>
              \E seq \in {SequentialRun(call.run_id, call.case_id, call.graph_text)} :
                  /\ call.locals = seq.locals
                  /\ call.files = seq.files

\* a run of A004 whose methods overlapped has ended: the tests of both methods passed, graph reverted
\* cleanly and baseline left its residual file
C27_Witness ==
    /\ InterleaveDone
    /\ call.overlapped
    /\ call.case_id = "A004"
    /\ \A m \in MethodSet : Contains(call.locals[m].outputs[5], Markers.passed)
    /\ call.locals["graph"].state.revert_clean
    /\ ~call.locals["baseline"].state.revert_clean
    /\ Residual(call.run_id, "baseline") \in call.files


\* C28: when no external call raises, main of the tool benchmark processes every case
\* of build_cases in order, builds one result row with its notes per case and then
\* reaches write_sqlite and the report write: no case iteration fails before its row is
\* appended, so main ends with an exception only when a subprocess call has raised.
C28_MainReachesReport ==
    tools.pc = "raised" => tools.raised = "TimeoutExpired"


\* the points of side x against side y: one each for the higher accuracy, the lower
\* latency, the lower token total, and for succeeding alone
WinnerPoints(x, y) == OneIf(x.accuracy > y.accuracy) + OneIf(x.latency_ms < y.latency_ms) + OneIf(x.total_tokens_est < y.total_tokens_est) + OneIf(x.success /\ ~y.success)

\* C29: classify_winner returns 'mcp_only' exactly when the baseline has no latency;
\* otherwise accuracy (higher), latency (lower), total tokens (lower) and success (only
\* one side succeeded) give one point each to the strictly better side, the result is
\* 'tie' when the points are equal and else the side with more points; exchanging the two
\* inputs (both with latencies) exchanges 'mcp' and 'baseline' and keeps 'tie'.
C29_ClassifyWinner ==
    (call.fn = "classify_winner" /\ call.applied = 1) =>
        LET m == WinnerPoints(call.mcp, call.baseline)
            b == WinnerPoints(call.baseline, call.mcp)
        IN  /\ (call.winner = "mcp_only") <=> (call.baseline.latency_ms = NULL)
            /\ call.baseline.latency_ms # NULL =>
                  /\ call.winner = (IF m = b THEN "tie" ELSE IF m > b THEN "mcp" ELSE "baseline")
                  /\ call.swapped = (IF call.winner = "mcp" THEN "baseline"
                                     ELSE IF call.winner = "baseline" THEN "mcp" ELSE "tie")

\* the tool is more accurate and cheaper, the baseline faster and alone in succeeding:
\* two points each, a tie, also with the inputs exchanged
C29_Witness ==
    /\ call.fn = "classify_winner" /\ call.applied = 1
    /\ call.mcp = [latency_ms |-> 20, accuracy |-> 1000, total_tokens_est |-> 5, success |-> FALSE]
    /\ call.baseline = [latency_ms |-> 10, accuracy |-> 500, total_tokens_est |-> 9, success |-> TRUE]
    /\ call.winner = "tie" /\ call.swapped = "tie"


\* the runs of the database of the call, most recent first
GateRunsByAge == latest_two_runs(call.db)

\* the value of a metric in the summary of a run, 0 when the summary lacks the metric
GateValue(run_id, k) == IF k \in DOMAIN call.db[run_id].summary THEN call.db[run_id].summary[k] \div 10 ELSE 0

\* C30: the regression gate, given a database, compares the two most recent runs by
\* generated_at: it exits with failure exactly when at least one of mcpLowerTokens,
\* mcpFaster, mcpHigherAccuracy decreased by strictly more than its allowed limit (a
\* decrease equal to the limit passes, a metric missing from a summary counts as 0), and
\* it passes without comparing when fewer than two runs exist.
C30_RegressionGate ==
    (call.fn = "regression_gate" /\ call.applied = 1 /\ call.db_exists) =>
        IF Len(call.db) < 2
        THEN call.result.exit_code = 0 /\ call.result.printed = "skipping"
        ELSE LET latest   == CHOOSE i \in DOMAIN call.db : call.db[i].generated_at = Len(call.db)
                 previous == CHOOSE i \in DOMAIN call.db : call.db[i].generated_at = Len(call.db) - 1
                 decreased == {k \in GateMetrics : GateValue(previous, k) - GateValue(latest, k) > call.args[k]}
             IN  /\ (call.result.exit_code = 1) <=> (decreased # {})
                 /\ call.result.exit_code \in {0, 1}
                 /\ call.result.failures = decreased
                 /\ (\A k \in GateMetrics : GateValue(previous, k) - GateValue(latest, k) = call.args[k])
                       => call.result.exit_code = 0

\* three runs; the latest lacks mcpHigherAccuracy, which the one before has at 6: the gate
\* fails on that metric alone, whatever the oldest run holds
C30_Witness ==
    /\ call.fn = "regression_gate" /\ call.applied = 1 /\ call.db_exists
    /\ Len(call.db) = 3
    /\ call.args = [mcpLowerTokens |-> 5, mcpFaster |-> 2, mcpHigherAccuracy |-> 1]
    /\ \E i, j \in DOMAIN call.db :
          /\ call.db[i].generated_at = 3 /\ call.db[j].generated_at = 2
          /\ call.db[i].summary = [mcpLowerTokens |-> 10, mcpFaster |-> 40]
          /\ call.db[j].summary = [mcpLowerTokens |-> 60, mcpFaster |-> 60, mcpHigherAccuracy |-> 60]
    /\ call.result.exit_code = 1
    /\ call.result.failures = {"mcpHigherAccuracy"}

====
